---- MODULE Spec2Model ----
(***************************************************************************)
(* Model of the spreadsheet-driven device-database compiler                *)
(* (src/excel2db/excel2db4Modbus.py): the Row Interpreter                  *)
(* (handle_excel_list), the Inference Engine (ModbusRecord.gen_prepare),   *)
(* the Interface Registry (ModbusRecord.gen_config_line, DriverRegistered) *)
(* and the Renderer (gen_db_lines and the __main__ render loop).           *)
(*                                                                         *)
(* Python strings are sequences of one-character strings, so that          *)
(* concatenation (+, f-strings) and equality of the concatenated results   *)
(* are computed as Python computes them.  A spreadsheet cell / attribute   *)
(* value is a record [k, n, s]: k is "none", "int" or "str", n the integer *)
(* and s the characters (bool and float cells are not modelled).           *)
(***************************************************************************)
EXTENDS Integers, Sequences, FiniteSets, TLC

\* ------------------------------------------------------------------ bounds
\* Largest number of data rows of a table (excel_list[1:]).
MaxRows == 3
\* Largest address offset and largest data length a row declares.
MaxOffset == 2
MaxLength == 4
\* Largest number of data rows of a stream table.
MaxStreamRows == 3

\* ---------------------------------------------------------- Python values
PyNone == [k |-> "none", n |-> 0, s |-> <<>>]
PyInt(i) == [k |-> "int", n |-> i, s |-> <<>>]
PyStr(str) == [k |-> "str", n |-> 0, s |-> str]

\* bool(v): None, 0 and '' are falsy.
Truthy(v) == \/ v.k = "int" /\ v.n # 0
             \/ v.k = "str" /\ v.s # <<>>

\* isinstance(v, int)
IsInt(v) == v.k = "int"

Digit(d) == <<"0", "1", "2", "3", "4", "5", "6", "7", "8", "9">>[d + 1]

RECURSIVE NatStr(_)
NatStr(i) == IF i < 10 THEN <<Digit(i)>> ELSE NatStr(i \div 10) \o <<Digit(i % 10)>>

\* str(v), as an f-string field renders it.
Str(v) == CASE v.k = "none" -> <<"N", "o", "n", "e">>
            [] v.k = "int" -> IF v.n < 0 THEN <<"-">> \o NatStr(0 - v.n) ELSE NatStr(v.n)
            [] OTHER -> v.s

\* str.lower() on the letters the access-mode and record-type cells use.
LowerChar(c) == CASE c = "R" -> "r"
                  [] c = "W" -> "w"
                  [] c = "O" -> "o"
                  [] OTHER -> c

Lower(str) == [i \in 1..Len(str) |-> LowerChar(str[i])]

\* --------------------------------------------------------- module tables
NameSeparator == <<":">>

SupportedDataFormat ==
    (<<"B", "C", "D">> :> {<<"_", "U", "N", "S", "I", "G", "N", "E", "D">>,
                           <<"_", "S", "I", "G", "N", "E", "D">>}) @@
    (<<"I", "N", "T", "1", "6">> :> {<<>>, <<"S", "M">>}) @@
    (<<"U", "I", "N", "T", "1", "6">> :> {<<>>}) @@
    [t \in {<<"I", "N", "T", "3", "2">>, <<"U", "I", "N", "T", "3", "2">>,
            <<"I", "N", "T", "6", "4">>, <<"U", "I", "N", "T", "6", "4">>,
            <<"F", "L", "O", "A", "T", "3", "2">>,
            <<"F", "L", "O", "A", "T", "6", "4">>} |->
        {<<"_", "L", "E">>, <<"_", "L", "E", "_", "B", "S">>,
         <<"_", "B", "E">>, <<"_", "B", "E", "_", "B", "S">>}] @@
    [t \in {<<"S", "T", "R", "I", "N", "G">>, <<"Z", "S", "T", "R", "I", "N", "G">>} |->
        {<<"_", "H", "I", "G", "H">>, <<"_", "L", "O", "W">>,
         <<"_", "H", "I", "G", "H", "_", "L", "O", "W">>,
         <<"_", "L", "O", "W", "_", "H", "I", "G", "H">>}]

\* key + suffix for every key and every suffix of its list.
SupportedDataFormatList ==
    UNION {{key \o suffix : suffix \in SupportedDataFormat[key]} :
           key \in DOMAIN SupportedDataFormat}

drvUser2DTYP ==
    [t \in {<<"B", "C", "D">>, <<"I", "N", "T", "1", "6">>,
            <<"U", "I", "N", "T", "3", "2">>, <<"I", "N", "T", "3", "2">>,
            <<"S", "T", "R", "I", "N", "G">>,
            <<"Z", "S", "T", "R", "I", "N", "G">>} |-> "asynInt32"] @@
    (<<"U", "I", "N", "T", "1", "6">> :> "asynUInt32Digital") @@
    [t \in {<<"U", "I", "N", "T", "6", "4">>, <<"I", "N", "T", "6", "4">>} |-> "asynInt64"] @@
    [t \in {<<"F", "L", "O", "A", "T", "3", "2">>,
            <<"F", "L", "O", "A", "T", "6", "4">>} |-> "asynFloat64"]

\* ------------------------------------------------------------ ModbusRecord
\* ModbusRecord.__init__: every attribute None, name 'default'.  The
\* passthrough attributes (scan, desc, prec, egu, other_fields) are left out:
\* no check or derivation reads them.
ModbusRecord ==
    [line_number |-> PyNone,
     name |-> PyStr(<<"d", "e", "f", "a", "u", "l", "t">>),
     name_prefix |-> PyNone,
     type |-> PyNone,
     device |-> PyNone,
     slave_id |-> PyNone,
     memory_address |-> PyNone,
     memory_offset |-> PyNone,
     data_length |-> PyNone,
     memory_length |-> PyNone,
     device_access |-> PyNone,
     drvUser_prefix |-> PyNone,
     drvUser_suffix |-> PyNone,
     modbus_funcode |-> PyNone,
     interface_name |-> PyNone,
     memory_address_mask |-> PyNone]

AccessRead == PyStr(<<"r">>)
AccessWrite == PyStr(<<"w">>)

\* The tuple (1, 2, 3, 4, 5, 6, 15, 16) of gen_prepare's function-code check.
FunctionCodes == {PyInt(c) : c \in {1, 2, 3, 4, 5, 6, 15, 16}}

\* gen_prepare, "optional fields": falsy values get their defaults.
OrEmpty(v) == IF Truthy(v) THEN v ELSE PyStr(<<>>)

PrepareDefaults(pv) ==
    [pv EXCEPT !.line_number = IF Truthy(@) THEN @
                               ELSE PyStr(<<"u", "n", "k", "n", "o", "w", "n">>),
               !.name_prefix = OrEmpty(@),
               !.name = OrEmpty(@),
               !.drvUser_prefix = OrEmpty(@),
               !.drvUser_suffix = OrEmpty(@)]

\* RequiredFieldsOk without the check of the access mode.
RequiredFieldsOk_noAccess(pv) ==
    /\ Truthy(pv.device)
    /\ ~(~Truthy(pv.slave_id) /\ ~IsInt(pv.slave_id))
    /\ ~(~Truthy(pv.memory_offset) /\ ~IsInt(pv.memory_offset))
    /\ ~(~Truthy(pv.data_length) \/ ~IsInt(pv.data_length))
    /\ ~(pv.modbus_funcode # PyNone /\ pv.modbus_funcode \notin FunctionCodes)

\* gen_prepare, "required fields": TRUE when none of the checks exits.
RequiredFieldsOk(pv) ==
    /\ Truthy(pv.device)
    /\ ~(~Truthy(pv.slave_id) /\ ~IsInt(pv.slave_id))
    /\ ~(~Truthy(pv.memory_offset) /\ ~IsInt(pv.memory_offset))
    /\ ~(~Truthy(pv.data_length) \/ ~IsInt(pv.data_length))
    /\ pv.device_access \in {AccessRead, AccessWrite}
    /\ ~(pv.modbus_funcode # PyNone /\ pv.modbus_funcode \notin FunctionCodes)

\* gen_prepare, "data check": the concatenation is looked up in the list.
DataFormatOk(pv) ==
    pv.drvUser_prefix.s \o pv.drvUser_suffix.s \in SupportedDataFormatList

\* The function code the branch chain works with: the default when the row
\* declared none.
ResolvedFuncode(funcode, access) ==
    IF funcode = PyNone
    THEN (IF access = AccessRead THEN PyInt(3) ELSE PyInt(16))
    ELSE funcode

\* AccessMatches with the write codes' access check left out.
AccessMatches_readOnly(funcode, access) ==
    CASE funcode = PyNone -> TRUE
      [] funcode.n \in {1, 2, 3, 4} -> access = AccessRead
      [] funcode.n \in {5, 6, 15, 16} -> TRUE
      [] OTHER -> FALSE

\* The access mode each branch of the chain demands of an explicit code.
AccessMatches(funcode, access) ==
    CASE funcode = PyNone -> TRUE
      [] funcode.n \in {1, 2, 3, 4} -> access = AccessRead
      [] funcode.n \in {5, 6, 15, 16} -> access = AccessWrite
      [] OTHER -> FALSE

\* RecordType with the mask test of the (6, 16) branch left out.
RecordType_noMask(funcode, access, mask) ==
    CASE funcode = PyNone ->
            (IF access = AccessRead
             THEN (IF Truthy(mask) THEN <<"b", "i">> ELSE <<"a", "i">>)
             ELSE (IF Truthy(mask) THEN <<"b", "o">> ELSE <<"a", "o">>))
      [] funcode.n \in {1, 2} -> <<"b", "i">>
      [] funcode.n \in {5, 15} -> <<"b", "o">>
      [] funcode.n \in {3, 4} -> (IF Truthy(mask) THEN <<"b", "i">> ELSE <<"a", "i">>)
      [] OTHER -> <<"a", "o">>

\* self.type of each branch.
RecordType(funcode, access, mask) ==
    CASE funcode = PyNone ->
            (IF access = AccessRead
             THEN (IF Truthy(mask) THEN <<"b", "i">> ELSE <<"a", "i">>)
             ELSE (IF Truthy(mask) THEN <<"b", "o">> ELSE <<"a", "o">>))
      [] funcode.n \in {1, 2} -> <<"b", "i">>
      [] funcode.n \in {5, 15} -> <<"b", "o">>
      [] funcode.n \in {3, 4} -> (IF Truthy(mask) THEN <<"b", "i">> ELSE <<"a", "i">>)
      [] OTHER -> (IF Truthy(mask) THEN <<"b", "o">> ELSE <<"a", "o">>)

\* self.memory_address_mask of each branch: forced for the bit codes.
ResolvedMask(funcode, mask) ==
    IF funcode # PyNone /\ funcode.n \in {1, 2, 5, 15}
    THEN PyStr(<<"0", "x", "1">>)
    ELSE mask

\* math.ceil(n / 2) on an integer n (\div rounds down).
CeilHalf(n) == (n + 1) \div 2

\* MemoryLength with integer division in place of math.ceil.
MemoryLength_floor(funcode, offset, length) ==
    IF funcode \in {1, 2, 5, 15}
    THEN offset + length
    ELSE offset + length \div 2

\* self.memory_length, from the resolved function code.
MemoryLength(funcode, offset, length) ==
    IF funcode \in {1, 2, 5, 15}
    THEN offset + length
    ELSE offset + CeilHalf(length)

\* InterfaceName with the slave id left out of the key.
InterfaceName_noSlave(device, slave_id, memory_address, funcode) ==
    Str(device) \o <<"_", "A", "d", "d", "r">> \o
    Str(memory_address) \o <<"_", "F", "C">> \o Str(funcode)

\* f'{device}_{slave_id}_Addr{memory_address}_FC{modbus_funcode}'
InterfaceName(device, slave_id, memory_address, funcode) ==
    Str(device) \o <<"_">> \o Str(slave_id) \o <<"_", "A", "d", "d", "r">> \o
    Str(memory_address) \o <<"_", "F", "C">> \o Str(funcode)

\* ModbusRecord.gen_prepare: [exit |-> TRUE] when a check calls exit(1) (the
\* message names pv.line_number), else the completed record.
gen_prepare(pv) ==
    LET p == PrepareDefaults(pv)
        fc == ResolvedFuncode(p.modbus_funcode, p.device_access)
    IN  IF \/ ~RequiredFieldsOk(p)
           \/ ~DataFormatOk(p)
           \/ ~AccessMatches(p.modbus_funcode, p.device_access)
        THEN [exit |-> TRUE, pv |-> p]
        ELSE [exit |-> FALSE,
              pv |-> [p EXCEPT
                  !.modbus_funcode = fc,
                  !.type = PyStr(RecordType(p.modbus_funcode, p.device_access,
                                            p.memory_address_mask)),
                  !.memory_address_mask = ResolvedMask(p.modbus_funcode, @),
                  !.memory_length = PyInt(MemoryLength(fc.n, p.memory_offset.n,
                                                       p.data_length.n)),
                  !.interface_name = PyStr(InterfaceName(p.device, p.slave_id,
                                                         p.memory_address, fc))]]

\* ------------------------------------------------------ Interface Registry
\* A dict is the sequence of its values in insertion order; the key of a
\* DriverRegistered entry is its name, the key of a DeviceRegistered entry and
\* of a device_pvs entry is its device name.
DriverIndex(registry, interface_name) ==
    IF \E i \in 1..Len(registry) : registry[i].name = interface_name
    THEN CHOOSE i \in 1..Len(registry) : registry[i].name = interface_name
    ELSE 0

\* The ModbusDriver gen_config_line builds for a new key.
ModbusDriver(pv) ==
    [name |-> pv.interface_name,
     device |-> pv.device,
     slave_id |-> pv.slave_id,
     function_code |-> pv.modbus_funcode,
     memory_address |-> pv.memory_address,
     memory_length |-> pv.memory_length]

\* MergedLength without the comparison: the last record's span wins.
MergedLength_last(registered, span) == span

\* The length of an already-registered driver after a record registers.
MergedLength(registered, span) ==
    IF span.n > registered.n THEN span ELSE registered

\* gen_config_line storing a new ModbusDriver, with the merged length, under
\* a key that is already registered.
gen_config_line_rebuild(registry, pv) ==
    LET i == DriverIndex(registry, pv.interface_name)
    IN  IF i = 0
        THEN Append(registry, ModbusDriver(pv))
        ELSE [registry EXCEPT ![i] =
                [ModbusDriver(pv) EXCEPT !.memory_length =
                    MergedLength(registry[i].memory_length, pv.memory_length)]]

\* ModbusRecord.gen_config_line: DriverRegistered after the call.
gen_config_line(registry, pv) ==
    LET i == DriverIndex(registry, pv.interface_name)
    IN  IF i = 0
        THEN Append(registry, ModbusDriver(pv))
        ELSE [registry EXCEPT ![i].memory_length = MergedLength(@, pv.memory_length)]

\* ModbusDriver.config_line: the arguments of the drvModbusAsynConfigure call,
\* in order (the three trailing ones are 0, 100 and the device again).
config_line(driver) ==
    [portName |-> Str(driver.name),
     tcpPortName |-> Str(driver.device),
     slaveAddress |-> Str(driver.slave_id),
     modbusFunction |-> Str(driver.function_code),
     modbusStartAddress |-> Str(driver.memory_address),
     modbusLength |-> Str(driver.memory_length),
     plcType |-> Str(driver.device)]

\* ---------------------------------------------------------------- Renderer
\* The INP / OUT field of gen_db_lines; the fallback branch only prints and
\* leaves the DTYP line in `line`, which is then appended a second time.
LinkField(pv) ==
    LET kind == pv.type.s
        drvUser == pv.drvUser_prefix.s \o pv.drvUser_suffix.s
        plain == <<"@", "a", "s", "y", "n", "(">> \o Str(pv.interface_name) \o
                 <<" ">> \o Str(pv.memory_offset) \o <<")">> \o drvUser
        masked == <<"@", "a", "s", "y", "n", "M", "a", "s", "k", "(">> \o
                  Str(pv.interface_name) \o <<" ">> \o Str(pv.memory_offset) \o
                  <<" ">> \o Str(pv.memory_address_mask) \o <<")">> \o drvUser
        has(c) == \E i \in 1..Len(kind) : kind[i] = c
    IN  CASE pv.device_access = AccessRead /\ has("a") -> [field |-> "INP", value |-> plain]
          [] pv.device_access = AccessRead /\ has("b") -> [field |-> "INP", value |-> masked]
          [] pv.device_access = AccessWrite /\ has("a") -> [field |-> "OUT", value |-> plain]
          [] pv.device_access = AccessWrite /\ has("b") -> [field |-> "OUT", value |-> masked]
          [] OTHER -> [field |-> "DTYP", value |-> <<>>]

\* ModbusRecord.gen_db_lines: [crash |-> TRUE] when it raises (TypeError of
\* None + str in the record name or the drvUser string, KeyError of
\* drvUser2DTYP[...], TypeError of "'a' in self.type" on a type that is not
\* a string), else the record block (header, DTYP, INP/OUT).  `row` is the
\* line number of the row the block comes from; it is not part of the text.
gen_db_lines(pv) ==
    IF \/ pv.name_prefix.k # "str" \/ pv.name.k # "str"
       \/ pv.drvUser_prefix.k # "str"
       \/ pv.drvUser_prefix.s \notin DOMAIN drvUser2DTYP
       \/ pv.device_access \in {AccessRead, AccessWrite} /\ pv.type.k # "str"
       \/ LinkField(pv).field # "DTYP" /\ pv.drvUser_suffix.k # "str"
    THEN [crash |-> TRUE]
    ELSE [crash |-> FALSE,
          row |-> pv.line_number.n,
          type |-> Str(pv.type),
          name |-> pv.name_prefix.s \o NameSeparator \o pv.name.s,
          DTYP |-> drvUser2DTYP[pv.drvUser_prefix.s],
          link |-> LinkField(pv)]

\* ---------------------------------------------------------------- state
VARIABLES
    pv_title,          \* excel_list[0]: the header row, as the fields its cells name
    excel_list,        \* excel_list[1:], the data rows read so far
    device_pvs,        \* handle_excel_list's result: device name -> records
    DeviceRegistered,  \* the Device registry
    DriverRegistered,  \* the Interface registry
    pc,                \* "handle_excel_list", "render" or "exited"
    dev_i,             \* render loop: position of `dev` in device_pvs
    pv_i,              \* render loop: position of `pv_item` in device_pvs[dev]
    step,              \* render loop: "pv" (record loop) or "cmd" (driver loop)
    lines_for_db,      \* the record blocks collected for the current device
    res_files,         \* the files written to res/, in the order written
    status,            \* "running", "exit0", "exit1" (exit(1)) or "traceback"
    diag_line,         \* the line number the exit(1) message names, else None
    registered,        \* the records gen_config_line was called on, in order
    \* excel2db4StreamDevice.py (pv_title, excel_list, pc, dev_i, res_files,
    \* status and diag_line above serve both programs)
    AsynDriverRegistered,    \* its DriverRegistered: the AsynDriver registry
    StreamDataRegistered,    \* the Data Channel registry
    DrvCommonTerminator,     \* driver name -> default Terminator
    DrvCommonInTerminator,   \* driver name -> default InTerminator
    DrvCommonOutTerminator,  \* driver name -> default OutTerminator
    driver_pvs,              \* its handle_excel_list's result: driver -> records
    \* one header cell of either handle_excel_list, taken alone
    program,           \* "modbus" or "stream": whose if/elif chain runs
    title_cell,        \* pv_title[i]
    data_cell,         \* excel_list[j][i]
    cell_st,           \* the row loop's state, before and after the cell
    fired,             \* the rule whose branch ran (0: none), -1 before
    \* one call of a renderer, taken alone
    renderer,          \* the method called
    render_obj,        \* the object it is called on
    render_out,        \* <<>> before the call, then <<what it produced>>
    \* pcaspy_test.py: myDriver
    Run,               \* the parameter 'Run': 0 (STOP) or 1 (RUN)
    eid,               \* the flag of the threading.Event self.eid
    tid_pc,            \* where the thread self.tid stands in runSimScope
    run,               \* runSimScope's local `run`
    write_pc,          \* where the server thread stands in write()
    reason,            \* write()'s argument `reason`
    value,             \* write()'s argument `value`
    updated,           \* updatePVs() was called since 'Run' was last stored
    \* vna/MotorController2D.py: TwoDimensionalMotorController
    ctl,               \* the controller's attributes
    connected,         \* PV.connected, the same for every PV of the device
    call               \* the last method call: arguments, return value, puts

\* The state of the stream program.
streamVars == <<AsynDriverRegistered, StreamDataRegistered, DrvCommonTerminator,
                DrvCommonInTerminator, DrvCommonOutTerminator, driver_pvs>>

\* The state that only the Modbus program has.
modbusVars == <<device_pvs, DeviceRegistered, DriverRegistered, pv_i, step,
                lines_for_db, registered>>

\* The state of the header dispatch taken alone.
dispatchVars == <<program, title_cell, data_cell, cell_st, fired>>

\* The state of a renderer call taken alone.
renderVars == <<renderer, render_obj, render_out>>

\* The state of the test server of pcaspy_test.py.
scopeVars == <<Run, eid, tid_pc, run, write_pc, reason, value, updated>>

\* The state of the motor controller.
motorVars == <<ctl, connected, call>>

\* The state outside the two compilers' runs.
auxVars == <<dispatchVars, renderVars, scopeVars, motorVars>>

\* The state of the two compilers' runs.
compilerVars == <<pv_title, excel_list, pc, dev_i, res_files, status, diag_line,
                  modbusVars, streamVars>>

vars == <<compilerVars, auxVars>>

\* A run of the Modbus program loads nothing of the stream program.
StreamNotLoaded ==
    /\ AsynDriverRegistered = <<>>
    /\ StreamDataRegistered = <<>>
    /\ DrvCommonTerminator = <<>>
    /\ DrvCommonInTerminator = <<>>
    /\ DrvCommonOutTerminator = <<>>
    /\ driver_pvs = <<>>

\* Nothing but the part named `running` ("compilers", "dispatch", "render",
\* "scope" or "motor") is loaded: every variable of the other parts has the
\* value it has when that part never runs.
OthersNotLoaded(running) ==
    /\ running # "compilers" =>
            /\ pv_title = <<>>
            /\ excel_list = <<>>
            /\ pc = "exited"
            /\ dev_i = 0
            /\ res_files = <<>>
            /\ status = "running"
            /\ diag_line = PyNone
            /\ device_pvs = <<>>
            /\ DeviceRegistered = <<>>
            /\ DriverRegistered = <<>>
            /\ pv_i = 0
            /\ step = "pv"
            /\ lines_for_db = <<>>
            /\ registered = <<>>
            /\ StreamNotLoaded
    /\ running # "dispatch" =>
            /\ program = ""
            /\ title_cell = <<>>
            /\ data_cell = <<>>
            /\ cell_st = <<>>
            /\ fired = -1
    /\ running # "render" =>
            /\ renderer = ""
            /\ render_obj = <<>>
            /\ render_out = <<>>
    /\ running # "scope" =>
            /\ Run = 0
            /\ eid = FALSE
            /\ tid_pc = ""
            /\ run = 0
            /\ write_pc = ""
            /\ reason = ""
            /\ value = 0
            /\ updated = FALSE
    /\ running # "motor" =>
            /\ ctl = <<>>
            /\ connected = FALSE
            /\ call = <<>>

\* ------------------------------------------------------- Row Interpreter
\* A header cell is modelled by the field whose fragment it contains:
\*   DeviceName 'PLC名称', IPPort 'IP:Port', SlaveId 'PLC从站号',
\*   FunCode 'Modbus功能码', Address 'Address', Offset 'Offset',
\*   Access '数据操作', Length '数据长度', Prefix 'PV前缀', Name 'PV后缀',
\*   Type '数据类型', Format '数据格式', Mask '掩码', Info 'PLC信息'.
FullHeader ==
    <<"DeviceName", "IPPort", "Info", "SlaveId", "FunCode", "Address", "Offset",
      "Length", "Access", "Type", "Format", "Mask", "Prefix", "Name">>

Columns == {FullHeader[i] : i \in 1..Len(FullHeader)}

\* One branch of the if/elif chain over pv_title[i]: st is the loop's state
\* (outcome "ok", "exit" after exit(1), "crash" after an uncaught exception).
SetCell(st, column, cell) ==
    CASE column = "DeviceName" ->
            LET device_name == IF Truthy(cell) THEN cell
                               ELSE PyStr(<<"U", "n", "k", "n", "o", "w", "n",
                                            "D", "e", "v", "i", "c", "e">>)
            IN  [st EXCEPT !.device_name = device_name, !.pv.device = device_name]
      [] column = "IPPort" ->
            IF ~Truthy(cell) THEN [st EXCEPT !.outcome = "exit"]
            ELSE [st EXCEPT !.device_address = cell]
      [] column = "Info" -> [st EXCEPT !.device_info = cell]
      [] column = "SlaveId" -> [st EXCEPT !.pv.slave_id = cell]
      [] column = "FunCode" -> [st EXCEPT !.pv.modbus_funcode = cell]
      [] column = "Address" ->
            IF ~Truthy(cell) \/ ~IsInt(cell) THEN [st EXCEPT !.outcome = "exit"]
            ELSE [st EXCEPT !.pv.memory_address = cell]
      [] column = "Offset" ->
            IF ~IsInt(cell) THEN [st EXCEPT !.outcome = "exit"]
            ELSE [st EXCEPT !.pv.memory_offset = cell]
      [] column = "Access" ->
            IF cell.k # "str" THEN [st EXCEPT !.outcome = "crash"]
            ELSE IF Lower(cell.s) \notin {<<"r">>, <<"w">>, <<"r", "w">>}
                 THEN [st EXCEPT !.outcome = "exit"]
                 ELSE [st EXCEPT !.pv.device_access = cell]
      [] column = "Length" ->
            IF ~IsInt(cell) \/ cell.n <= 0 THEN [st EXCEPT !.outcome = "exit"]
            ELSE [st EXCEPT !.pv.data_length = cell]
      [] column = "Prefix" ->
            IF ~Truthy(cell) THEN [st EXCEPT !.outcome = "exit"]
            ELSE [st EXCEPT !.pv.name_prefix = cell]
      [] column = "Name" ->
            IF ~Truthy(cell) THEN [st EXCEPT !.outcome = "exit"]
            ELSE [st EXCEPT !.pv.name = cell]
      [] column = "Type" ->
            IF ~Truthy(cell) THEN [st EXCEPT !.outcome = "exit"]
            ELSE [st EXCEPT !.pv.drvUser_prefix = cell]
      [] column = "Format" -> [st EXCEPT !.pv.drvUser_suffix = cell]
      [] column = "Mask" -> [st EXCEPT !.pv.memory_address_mask = cell]
      [] OTHER -> st

\* The loop over the header cells, from cell i on; it stops at the first
\* exit(1) or exception.
RECURSIVE FillRow(_, _, _, _)
FillRow(st, title, row, i) ==
    IF i > Len(title) \/ st.outcome # "ok"
    THEN st
    ELSE FillRow(SetCell(st, title[i], row[title[i]]), title, row, i + 1)

\* One iteration of handle_excel_list's loop over a row, up to the
\* registration of the device: the row is line `line_number` of the sheet.
InterpretCells(title, row, line_number) ==
    FillRow([outcome |-> "ok",
             pv |-> [ModbusRecord EXCEPT !.line_number = PyInt(line_number)],
             device_name |-> PyNone,
             device_address |-> PyNone,
             device_info |-> PyNone],
            title, row, 1)

DeviceIndex(devices, device_name) ==
    IF \E i \in 1..Len(devices) : devices[i].name = device_name
    THEN CHOOSE i \in 1..Len(devices) : devices[i].name = device_name
    ELSE 0

\* RegisterDevice with the address of a registered device overwritten by
\* the row's.
RegisterDevice_overwrite(devices, st) ==
    LET i == DeviceIndex(devices, st.device_name)
    IN  IF i # 0
        THEN [devices EXCEPT ![i].address = st.device_address]
        ELSE Append(devices, [name |-> st.device_name,
                              address |-> st.device_address,
                              device_type |-> "Modbus",
                              info |-> st.device_info])

\* RegisterDevice with the info of a registered device overwritten by the
\* row's.
RegisterDevice_lastInfo(devices, st) ==
    LET i == DeviceIndex(devices, st.device_name)
    IN  IF i # 0
        THEN [devices EXCEPT ![i].info = st.device_info]
        ELSE Append(devices, [name |-> st.device_name,
                              address |-> st.device_address,
                              device_type |-> "Modbus",
                              info |-> st.device_info])

\* "if device_name not in DeviceRegistered.keys()": the new ModbusDevice.
RegisterDevice(devices, st) ==
    IF DeviceIndex(devices, st.device_name) # 0
    THEN devices
    ELSE Append(devices, [name |-> st.device_name,
                          address |-> st.device_address,
                          device_type |-> "Modbus",
                          info |-> st.device_info])

\* device_pvs[device_name].append(pv_temp), with the empty list created when
\* the device is new.
AppendRecord(pvs, devices, st) ==
    IF DeviceIndex(devices, st.device_name) = 0
    THEN Append(pvs, [device |-> st.device_name, records |-> <<st.pv>>])
    ELSE LET i == CHOOSE i \in 1..Len(pvs) : pvs[i].device = st.device_name
         IN  [pvs EXCEPT ![i].records = Append(@, st.pv)]

\* ----------------------------------------------------------------- inputs
Without(title, column) == SelectSeq(title, LAMBDA c : c # column)

\* The fields spec and code call required.
RequiredColumns ==
    {"IPPort", "Address", "Offset", "Access", "Length", "Type", "Prefix", "Name"}

\* The complete header, and the headers in which one required column is absent.
Headers == {FullHeader} \cup {Without(FullHeader, c) : c \in RequiredColumns}

DeviceA == PyStr(<<"A">>)
DeviceA1 == PyStr(<<"A", "_", "1">>)

\* A complete, valid row: device A at h:502, slave 2, base address 100,
\* offset 0, one INT16 register, read, no explicit function code, no mask.
BaseRow ==
    [c \in Columns |->
        CASE c = "DeviceName" -> DeviceA
          [] c = "IPPort" -> PyStr(<<"h", ":", "5", "0", "2">>)
          [] c = "SlaveId" -> PyInt(2)
          [] c = "Address" -> PyInt(100)
          [] c = "Offset" -> PyInt(0)
          [] c = "Length" -> PyInt(1)
          [] c = "Access" -> AccessRead
          [] c = "Type" -> PyStr(<<"I", "N", "T", "1", "6">>)
          [] c = "Prefix" -> PyStr(<<"P">>)
          [] c = "Name" -> PyStr(<<"n">>)
          [] OTHER -> PyNone]

\* Valid rows: two devices, integer slave id 2 and the text slave id '1_2',
\* and three spans on each interface.
ValidRows ==
    {[BaseRow EXCEPT !["DeviceName"] = ds[1], !["SlaveId"] = ds[2],
                     !["Offset"] = PyInt(ol[1]), !["Length"] = PyInt(ol[2])] :
        ds \in {<<DeviceA, PyInt(2)>>,
                <<DeviceA, PyStr(<<"1", "_", "2">>)>>,
                <<DeviceA1, PyInt(2)>>},
        ol \in {<<0, 1>>, <<0, MaxLength>>, <<MaxOffset, MaxLength>>}}

\* Rows of device A_1 with one defect: a blank required cell, or a value the
\* Inference Engine rejects.
DefectRows ==
    LET row == [BaseRow EXCEPT !["DeviceName"] = DeviceA1]
    IN  {[row EXCEPT ![c] = PyNone] : c \in RequiredColumns} \cup
        {[row EXCEPT !["FunCode"] = PyInt(1), !["Access"] = AccessWrite],
         [row EXCEPT !["FunCode"] = PyInt(7)],
         [row EXCEPT !["Access"] = PyStr(<<"r", "w">>)],
         [row EXCEPT !["Format"] = PyStr(<<"_", "L", "E">>)],
         [row EXCEPT !["Type"] = PyStr(<<"I", "N", "T">>),
                     !["Format"] = PyStr(<<"1", "6">>)]}

\* The rows a table under header `title` is drawn from: every row above under
\* the complete header, the valid rows of one span under a shortened one.
TableRows(title) ==
    LET rows == IF title = FullHeader
                THEN ValidRows \cup DefectRows
                ELSE {r \in ValidRows : r["Offset"].n = 0 /\ r["Length"].n = 1}
    IN  {[c \in {title[i] : i \in 1..Len(title)} |-> r[c]] : r \in rows}

\* ---------------------------------------------------------------- actions
\* The start of handle_excel_list on a sheet whose header row is one of
\* `titles`: no row read, every registry empty.
InitTable(titles) ==
    /\ pv_title \in titles
    /\ excel_list = <<>>
    /\ device_pvs = <<>>
    /\ DeviceRegistered = <<>>
    /\ DriverRegistered = <<>>
    /\ pc = "handle_excel_list"
    /\ dev_i = 0
    /\ pv_i = 0
    /\ step = "pv"
    /\ lines_for_db = <<>>
    /\ res_files = <<>>
    /\ status = "running"
    /\ diag_line = PyNone
    /\ registered = <<>>
    /\ StreamNotLoaded
    /\ OthersNotLoaded("compilers")

\* A sheet with the complete header.
Init == InitTable({FullHeader})

\* A sheet with the complete header or a header lacking one required column.
InitHeaders == InitTable(Headers)

\* handle_excel_list, one iteration of "for j in range(1, len(excel_list))".
InterpretRow(row) ==
    /\ pc = "handle_excel_list"
    /\ Len(excel_list) < MaxRows
    /\ LET j == Len(excel_list) + 1
           st == InterpretCells(pv_title, row, j + 1)
       IN  /\ excel_list' = Append(excel_list, row)
           /\ IF st.outcome = "ok"
              THEN /\ DeviceRegistered' = RegisterDevice(DeviceRegistered, st)
                   /\ device_pvs' = AppendRecord(device_pvs, DeviceRegistered, st)
                   /\ UNCHANGED <<pc, status, diag_line>>
              ELSE /\ pc' = "exited"
                   /\ status' = (IF st.outcome = "exit" THEN "exit1" ELSE "traceback")
                   /\ diag_line' = (IF st.outcome = "exit" THEN st.pv.line_number
                                    ELSE PyNone)
                   /\ UNCHANGED <<DeviceRegistered, device_pvs>>
    /\ UNCHANGED <<pv_title, DriverRegistered, dev_i, pv_i, step, lines_for_db,
                   res_files, registered>>
    /\ UNCHANGED <<streamVars, auxVars>>

\* handle_excel_list returns; __main__ enters "for dev in device_pv_list_dict".
EndOfTable ==
    /\ pc = "handle_excel_list"
    /\ IF device_pvs = <<>>
       THEN /\ pc' = "exited"
            /\ status' = "exit0"
            /\ UNCHANGED <<dev_i, pv_i>>
       ELSE /\ pc' = "render"
            /\ dev_i' = 1
            /\ pv_i' = 1
            /\ UNCHANGED status
    /\ UNCHANGED <<pv_title, excel_list, device_pvs, DeviceRegistered,
                   DriverRegistered, step, lines_for_db, res_files, diag_line,
                   registered>>
    /\ UNCHANGED <<streamVars, auxVars>>

\* One iteration of "for pv_item in device_pv_list_dict[dev]": gen_prepare,
\* gen_config_line, gen_db_lines.
RenderRecord ==
    /\ pc = "render"
    /\ step = "pv"
    /\ pv_i <= Len(device_pvs[dev_i].records)
    /\ LET prepared == gen_prepare(device_pvs[dev_i].records[pv_i])
           block == gen_db_lines(prepared.pv)
       IN  /\ device_pvs' = [device_pvs EXCEPT ![dev_i].records[pv_i] = prepared.pv]
           /\ IF prepared.exit
              THEN /\ pc' = "exited"
                   /\ status' = "exit1"
                   /\ diag_line' = prepared.pv.line_number
                   /\ UNCHANGED <<DriverRegistered, registered, lines_for_db, pv_i>>
              ELSE /\ DriverRegistered' = gen_config_line(DriverRegistered, prepared.pv)
                   /\ registered' = Append(registered, prepared.pv)
                   /\ IF block.crash
                      THEN /\ pc' = "exited"
                           /\ status' = "traceback"
                           /\ UNCHANGED <<lines_for_db, pv_i, diag_line>>
                      ELSE /\ lines_for_db' = Append(lines_for_db, block)
                           /\ pv_i' = pv_i + 1
                           /\ UNCHANGED <<pc, status, diag_line>>
    /\ UNCHANGED <<pv_title, excel_list, DeviceRegistered, dev_i, step, res_files>>
    /\ UNCHANGED <<streamVars, auxVars>>

\* The else clause of the record loop: the device's .db file is written.
WriteDbFile ==
    /\ pc = "render"
    /\ step = "pv"
    /\ pv_i > Len(device_pvs[dev_i].records)
    /\ res_files' = Append(res_files, [device |-> device_pvs[dev_i].device,
                                       ext |-> "db",
                                       lines |-> lines_for_db])
    /\ step' = "cmd"
    /\ UNCHANGED <<pv_title, excel_list, device_pvs, DeviceRegistered,
                   DriverRegistered, pc, dev_i, pv_i, lines_for_db, status,
                   diag_line, registered>>
    /\ UNCHANGED <<streamVars, auxVars>>

\* lines_for_cmd of device `dev`: the port lines of the registered devices
\* named dev, then the config_line of every registered driver whose device
\* is dev.
lines_for_cmd(dev) ==
    [ports |-> SelectSeq(DeviceRegistered, LAMBDA d : d.name = dev),
     drivers |-> LET mine == SelectSeq(DriverRegistered, LAMBDA d : d.device = dev)
                 IN  [i \in 1..Len(mine) |-> config_line(mine[i])]]

\* The driver loop and its else clause: the device's .cmd file is written,
\* and the device loop goes on to the next device or ends the run.
WriteCmdFile ==
    /\ pc = "render"
    /\ step = "cmd"
    /\ res_files' = Append(res_files, [device |-> device_pvs[dev_i].device,
                                       ext |-> "cmd",
                                       lines |-> lines_for_cmd(device_pvs[dev_i].device)])
    /\ IF dev_i < Len(device_pvs)
       THEN /\ dev_i' = dev_i + 1
            /\ pv_i' = 1
            /\ step' = "pv"
            /\ lines_for_db' = <<>>
            /\ UNCHANGED <<pc, status>>
       ELSE /\ pc' = "exited"
            /\ status' = "exit0"
            /\ UNCHANGED <<dev_i, pv_i, step, lines_for_db>>
    /\ UNCHANGED <<pv_title, excel_list, device_pvs, DeviceRegistered,
                   DriverRegistered, diag_line, registered>>
    /\ UNCHANGED <<streamVars, auxVars>>

Next ==
    \/ \E row \in TableRows(pv_title) : InterpretRow(row)
    \/ EndOfTable
    \/ RenderRecord
    \/ WriteDbFile
    \/ WriteCmdFile

Spec == Init /\ [][Next]_vars

SpecHeaders == InitHeaders /\ [][Next]_vars

\* ------------------------------------------------ the Device registry
\* Valid rows over the devices A and A_1, two transport addresses and two
\* info texts; a row with a blank device name; a row with a blank address.
DeviceRows ==
    {[BaseRow EXCEPT !["DeviceName"] = device, !["IPPort"] = PyStr(address),
                     !["Info"] = PyStr(info)] :
        device \in {DeviceA, DeviceA1},
        address \in {<<"h", ":", "5", "0", "2">>, <<"g", ":", "5", "0", "2">>},
        info \in {<<"i">>, <<"j">>}} \cup
    {[BaseRow EXCEPT !["DeviceName"] = PyNone],
     [BaseRow EXCEPT !["IPPort"] = PyNone]}

NextDevices ==
    \/ \E row \in DeviceRows : InterpretRow(row)
    \/ EndOfTable
    \/ RenderRecord
    \/ WriteDbFile
    \/ WriteCmdFile

SpecDevices == Init /\ [][NextDevices]_vars

\* ------------------------------------------ the Inference Engine on one row
\* The rows the Inference Engine is explored on: every offset and length
\* within the bounds, every access mode the Row Interpreter lets through,
\* every function code (none, the eight supported, the unsupported 0 and 7),
\* with and without a mask, and encodings inside and outside the table.
InferRows ==
    {[BaseRow EXCEPT !["Offset"] = PyInt(offset), !["Length"] = PyInt(length),
                     !["Access"] = PyStr(access), !["FunCode"] = funcode,
                     !["Mask"] = mask, !["Type"] = PyStr(type),
                     !["Format"] = format] :
        offset \in 0..MaxOffset,
        length \in 1..MaxLength,
        access \in {<<"r">>, <<"w">>, <<"r", "w">>, <<"R">>},
        funcode \in {PyNone} \cup {PyInt(c) : c \in {0, 1, 2, 3, 4, 5, 6, 7, 15, 16}},
        mask \in {PyNone, PyStr(<<"0", "x", "2">>)},
        type \in {<<"I", "N", "T", "1", "6">>, <<"I", "N", "T", "3", "2">>,
                  <<"I", "N", "T", "3", "2", "_", "L", "E">>, <<"I", "N", "T">>},
        format \in {PyNone, PyStr(<<"S", "M">>), PyStr(<<"_", "L", "E">>),
                    PyStr(<<"1", "6">>)}}

\* The row of the round-trip scenario: device PLC1 at 10.0.0.1:502, slave 1,
\* base address 100, offset 0, length 4, read, no function code, FLOAT32 _LE.
RoundTripRow ==
    [BaseRow EXCEPT !["DeviceName"] = PyStr(<<"P", "L", "C", "1">>),
                    !["IPPort"] = PyStr(<<"1", "0", ".", "0", ".", "0", ".", "1",
                                          ":", "5", "0", "2">>),
                    !["SlaveId"] = PyInt(1),
                    !["Length"] = PyInt(4),
                    !["Type"] = PyStr(<<"F", "L", "O", "A", "T", "3", "2">>),
                    !["Format"] = PyStr(<<"_", "L", "E">>)]

\* The state in which handle_excel_list returns for a table of one row under
\* the complete header: the render loop is about to start.
InitInfer ==
    \E row \in InferRows \cup {RoundTripRow} :
        LET st == InterpretCells(FullHeader, row, 2)
        IN  /\ st.outcome = "ok"
            /\ pv_title = FullHeader
            /\ excel_list = <<row>>
            /\ DeviceRegistered = RegisterDevice(<<>>, st)
            /\ device_pvs = AppendRecord(<<>>, <<>>, st)
            /\ DriverRegistered = <<>>
            /\ pc = "render"
            /\ dev_i = 1
            /\ pv_i = 1
            /\ step = "pv"
            /\ lines_for_db = <<>>
            /\ res_files = <<>>
            /\ status = "running"
            /\ diag_line = PyNone
            /\ registered = <<>>
            /\ StreamNotLoaded
            /\ OthersNotLoaded("compilers")

NextInfer ==
    \/ RenderRecord
    \/ WriteDbFile
    \/ WriteCmdFile

SpecInfer == InitInfer /\ [][NextInfer]_vars

\* ============================================== excel2db4StreamDevice.py
\* True and False (bool is a subclass of int: True == 1, False == 0).
PyTrue == PyInt(1)
PyFalse == PyInt(0)

\* AsynDriver.__init__
AsynDriver ==
    [name |-> PyNone, device_name |-> PyNone, address |-> PyNone, info |-> PyNone,
     baud |-> PyNone, bits |-> PyNone, parity |-> PyNone, stop |-> PyNone,
     clocal |-> PyStr(<<"N">>), crtscts |-> PyNone]

\* StreamData.__init__; asyn_driver is a reference to a registered AsynDriver
\* and is held as that driver's name.
StreamData ==
    [name |-> PyNone, asyn_driver |-> PyNone, data_operation |-> PyNone,
     terminator |-> PyNone, in_terminator |-> PyNone, out_terminator |-> PyNone,
     out_command |-> PyNone, in_match_str |-> PyNone,
     intr |-> PyNone, with_init |-> PyNone]

\* StreamDeviceRecord.__init__ (desc, prec, egu and other_fields are passed
\* through to the record block and left out).
StreamDeviceRecord ==
    [line_number |-> PyNone,
     name |-> PyStr(<<"d", "e", "f", "a", "u", "l", "t">>),
     name_prefix |-> PyNone,
     type |-> PyNone,
     scan |-> PyNone,
     stream_data |-> StreamData]

\* The header row of the stream sheet; a header cell is modelled by the field
\* whose fragment it contains:
\*   DeviceName '设备名称', Address '设备地址', Info '设备信息', Baud '波特率',
\*   Bits '比特位数', Parity '奇偶校验', Stop '停止位', CrtsCts '启用RTS/CTS',
\*   InTerminator '输入终止符', OutTerminator '输出终止符', Terminator '终止符',
\*   DataName '数据名称', DataOperation '数据操作', OutCommand '输出命令字符串',
\*   InMatch '输入匹配字符串', RecordType 'Record类型', Prefix 'PV前缀',
\*   Name 'PV后缀', Scan '更新周期'.
StreamFullHeader ==
    <<"DeviceName", "Address", "Info", "Baud", "Bits", "Parity", "Stop", "CrtsCts",
      "InTerminator", "OutTerminator", "Terminator", "DataName", "DataOperation",
      "OutCommand", "InMatch", "RecordType", "Prefix", "Name", "Scan">>

StreamColumns == {StreamFullHeader[i] : i \in 1..Len(StreamFullHeader)}

\* The cell values the flow-control column accepts ('是' / '否').
CrtsCtsYes == PyStr(<<"yes">>)
CrtsCtsNo == PyStr(<<"no">>)

ScanIntr == PyStr(<<"I", "/", "O", " ", "I", "n", "t", "r">>)

\* "x" in str
HasChar(str, x) == \E i \in 1..Len(str) : str[i] = x

\* One branch of the stream handle_excel_list's if/elif chain over
\* pv_title[i]: st is the loop's state (outcome "ok", "exit" after exit(1),
\* "crash" after an uncaught exception).
StreamSetCell(st, column, cell) ==
    LET exit == [st EXCEPT !.outcome = "exit"]
        crash == [st EXCEPT !.outcome = "crash"]
    IN  CASE column = "DeviceName" ->
                LET device_name == IF Truthy(cell) THEN cell
                                   ELSE PyStr(<<"U", "n", "k", "n", "o", "w", "n",
                                                "D", "e", "v", "i", "c", "e">>)
                IN  [st EXCEPT !.device_name = device_name,
                               !.driver.name = device_name,
                               !.driver.device_name = device_name]
          [] column = "Address" ->
                IF ~Truthy(cell) THEN exit ELSE [st EXCEPT !.driver.address = cell]
          [] column = "Info" -> [st EXCEPT !.driver.info = cell]
          [] column = "Baud" ->
                IF ~IsInt(cell) THEN exit ELSE [st EXCEPT !.driver.baud = cell]
          [] column = "Bits" ->
                IF ~IsInt(cell) THEN exit ELSE [st EXCEPT !.driver.bits = cell]
          [] column = "Parity" ->
                IF cell \notin {PyStr(<<"n", "o", "n", "e">>), PyStr(<<"o", "d", "d">>),
                                PyStr(<<"e", "v", "e", "n">>), PyStr(<<"m", "a", "r", "k">>),
                                PyStr(<<"s", "p", "a", "c", "e">>)}
                THEN exit ELSE [st EXCEPT !.driver.parity = cell]
          [] column = "Stop" ->
                IF ~IsInt(cell) THEN exit ELSE [st EXCEPT !.driver.stop = cell]
          [] column = "CrtsCts" ->
                IF cell \notin {CrtsCtsYes, CrtsCtsNo} THEN exit
                ELSE [st EXCEPT !.driver.crtscts =
                        IF cell = CrtsCtsYes THEN PyStr(<<"Y">>) ELSE PyStr(<<"N">>)]
          [] column = "InTerminator" ->
                IF ~Truthy(cell) THEN exit ELSE [st EXCEPT !.sdata.in_terminator = cell]
          [] column = "OutTerminator" ->
                IF ~Truthy(cell) THEN exit ELSE [st EXCEPT !.sdata.out_terminator = cell]
          [] column = "Terminator" ->
                IF ~Truthy(cell) THEN exit ELSE [st EXCEPT !.sdata.terminator = cell]
          [] column = "DataName" ->
                IF ~Truthy(cell) THEN exit ELSE [st EXCEPT !.sdata.name = cell]
          [] column = "DataOperation" ->
                IF cell.k # "str" THEN crash
                ELSE IF Lower(cell.s) \notin {<<"r">>, <<"w">>} THEN exit
                     ELSE [st EXCEPT !.sdata.data_operation = cell]
          [] column = "OutCommand" -> [st EXCEPT !.sdata.out_command = cell]
          [] column = "InMatch" -> [st EXCEPT !.sdata.in_match_str = cell]
          [] column = "RecordType" ->
                IF ~Truthy(cell) THEN exit
                ELSE IF cell.k # "str" THEN crash
                     ELSE [st EXCEPT !.pv.type = cell,
                                     !.sdata.with_init =
                                        IF HasChar(Lower(cell.s), "o") THEN PyTrue
                                        ELSE PyFalse]
          [] column = "Prefix" ->
                IF ~Truthy(cell) THEN exit ELSE [st EXCEPT !.pv.name_prefix = cell]
          [] column = "Name" ->
                IF ~Truthy(cell) THEN exit ELSE [st EXCEPT !.pv.name = cell]
          [] column = "Scan" ->
                [st EXCEPT !.pv.scan = cell,
                           !.sdata.intr = IF cell = ScanIntr THEN PyTrue ELSE PyFalse]
          [] OTHER -> st

\* The loop over the header cells, from cell i on; it stops at the first
\* exit(1) or exception.
RECURSIVE StreamFillRow(_, _, _, _)
StreamFillRow(st, title, row, i) ==
    IF i > Len(title) \/ st.outcome # "ok"
    THEN st
    ELSE StreamFillRow(StreamSetCell(st, title[i], row[title[i]]), title, row, i + 1)

\* One iteration of the stream handle_excel_list's loop over a row, up to the
\* registrations (the tables modelled have a device-name column, so the local
\* device_name is always bound).
StreamInterpretCells(title, row, line_number) ==
    StreamFillRow([outcome |-> "ok",
                   pv |-> [StreamDeviceRecord EXCEPT !.line_number = PyInt(line_number)],
                   driver |-> AsynDriver,
                   sdata |-> StreamData,
                   device_name |-> PyNone],
                  title, row, 1)

\* ------------------------------------------------- stream registries
\* The registries are dicts keyed by str(object): a dict is the sequence of
\* its [key, value] items in insertion order.
KeyIndex(registry, key) ==
    IF \E i \in 1..Len(registry) : registry[i].key = key
    THEN CHOOSE i \in 1..Len(registry) : registry[i].key = key
    ELSE 0

\* AsynDriver.__str__: f"{self.name}"
AsynDriverStr(driver) == Str(driver.name)

\* StreamData.__str__ with a given direction:
\* f"{self.asyn_driver}-{self.name}-{direction}"
StreamDataKey(asyn_driver, name, direction) ==
    Str(asyn_driver) \o <<"-">> \o Str(name) \o <<"-">> \o Str(direction)

StreamDataStr(sdata) ==
    StreamDataKey(sdata.asyn_driver, sdata.name, sdata.data_operation)

\* "if str(driver_temp) not in DriverRegistered.keys()"
RegisterAsynDriver(drivers, driver) ==
    IF KeyIndex(drivers, AsynDriverStr(driver)) # 0
    THEN drivers
    ELSE Append(drivers, [key |-> AsynDriverStr(driver), value |-> driver])

\* sdata_temp.asyn_driver = DriverRegistered[str(driver_temp)]
BoundStreamData(drivers, st) ==
    [st.sdata EXCEPT !.asyn_driver =
        drivers[KeyIndex(drivers, AsynDriverStr(st.driver))].value.name]

\* "if str(sdata_temp) not in StreamDataRegistered.keys()"
RegisterStreamData(channels, sdata) ==
    IF KeyIndex(channels, StreamDataStr(sdata)) # 0
    THEN channels
    ELSE Append(channels, [key |-> StreamDataStr(sdata), value |-> sdata])

\* The position of driver_pvs[device_name], 0 when the dict has no such key.
DriverPvsIndex(pvs, device_name) ==
    IF \E i \in 1..Len(pvs) : pvs[i].driver = device_name
    THEN CHOOSE i \in 1..Len(pvs) : pvs[i].driver = device_name
    ELSE 0

\* driver_pvs after "driver_pvs[driver_temp.name] = []" for a new driver.
WithDriverList(pvs, drivers, driver) ==
    IF KeyIndex(drivers, AsynDriverStr(driver)) # 0
    THEN pvs
    ELSE LET i == DriverPvsIndex(pvs, driver.name)
         IN  IF i = 0 THEN Append(pvs, [driver |-> driver.name, records |-> <<>>])
             ELSE [pvs EXCEPT ![i].records = <<>>]

\* ------------------------------------------------- Terminator Consensus
TerminatorKinds == {"terminator", "in_terminator", "out_terminator"}

\* getattr(sdata, kind)
TerminatorOf(sdata, kind) ==
    CASE kind = "terminator" -> sdata.terminator
      [] kind = "in_terminator" -> sdata.in_terminator
      [] OTHER -> sdata.out_terminator

\* One pass of "for sdata in StreamDataRegistered.values()" for driver drv
\* and one kind, from channel i on: counts is the count dict so far, a
\* sequence of [key, count] in insertion order.
RECURSIVE CountTerminators(_, _, _, _, _)
CountTerminators(channels, drv_name, kind, i, counts) ==
    IF i > Len(channels)
    THEN counts
    ELSE LET sdata == channels[i].value
             t == TerminatorOf(sdata, kind)
             k == KeyIndex(counts, t)
         IN  CountTerminators(channels, drv_name, kind, i + 1,
                IF sdata.asyn_driver # drv_name \/ ~Truthy(t)
                THEN counts
                ELSE IF k = 0
                     THEN Append(counts, [key |-> t, count |-> 1])
                     ELSE [counts EXCEPT ![k].count = @ + 1])

\* MaxKey with a later key of equal count replacing the earlier one.
RECURSIVE MaxKey_lastWins(_, _, _)
MaxKey_lastWins(counts, i, best) ==
    IF i > Len(counts)
    THEN counts[best].key
    ELSE MaxKey_lastWins(counts, i + 1,
                         IF counts[i].count >= counts[best].count THEN i ELSE best)

\* max(count_dict, key=count_dict.get): the scan keeps the first key whose
\* count no later key exceeds.
RECURSIVE MaxKey(_, _, _)
MaxKey(counts, i, best) ==
    IF i > Len(counts)
    THEN counts[best].key
    ELSE MaxKey(counts, i + 1,
                IF counts[i].count > counts[best].count THEN i ELSE best)

\* DrvCommon<Kind>Terminator after get_global_terminator_settings has gone
\* through the drivers from driver d on.
RECURSIVE CommonTerminators(_, _, _, _, _)
CommonTerminators(drivers, channels, kind, d, common) ==
    IF d > Len(drivers)
    THEN common
    ELSE LET drv_name == drivers[d].value.name
             counts == CountTerminators(channels, drv_name, kind, 1, <<>>)
         IN  CommonTerminators(drivers, channels, kind, d + 1,
                IF counts = <<>> THEN common
                ELSE (drv_name :> MaxKey(counts, 1, 1)) @@ common)

\* StreamData.get_global_terminator_settings, for one kind.
get_global_terminator_settings(drivers, channels, kind) ==
    CommonTerminators(drivers, channels, kind, 1, <<>>)

\* ------------------------------------------------- stream renderer
\* StreamData.proto_name
proto_name(sdata) ==
    IF sdata.data_operation = PyStr(<<"r">>)
    THEN <<"g", "e", "t">> \o Str(sdata.name)
    ELSE <<"s", "e", "t">> \o Str(sdata.name)

\* OverrideLine without the comparison with the driver's default.
OverrideLine_always(sdata, kind, common) ==
    LET t == TerminatorOf(sdata, kind)
    IN  IF Truthy(t) /\ sdata.asyn_driver \in DOMAIN common
        THEN <<[kind |-> kind, value |-> t]>>
        ELSE <<>>

\* One "<Kind> = value;" line of get_terminator_string, or none.
OverrideLine(sdata, kind, common) ==
    LET t == TerminatorOf(sdata, kind)
    IN  IF Truthy(t) /\ sdata.asyn_driver \in DOMAIN common
                     /\ t # common[sdata.asyn_driver]
        THEN <<[kind |-> kind, value |-> t]>>
        ELSE <<>>

\* StreamData.get_terminator_string: the override lines, in order.
get_terminator_string(sdata, common) ==
    OverrideLine(sdata, "terminator", common["terminator"]) \o
    OverrideLine(sdata, "in_terminator", common["in_terminator"]) \o
    OverrideLine(sdata, "out_terminator", common["out_terminator"])

\* The out / in lines of a channel: a line is there when its template is.
CommandLines(sdata) ==
    (IF Truthy(sdata.out_command) THEN <<[op |-> "out", arg |-> sdata.out_command]>>
     ELSE <<>>) \o
    (IF Truthy(sdata.in_match_str) THEN <<[op |-> "in", arg |-> sdata.in_match_str]>>
     ELSE <<>>)

\* The two exception handlers every command sequence ends with.
HandlerLines ==
    <<[op |-> "@mismatch", arg |-> PyNone], [op |-> "@replytimeout", arg |-> PyNone]>>

\* The @init sub-block of StreamData.protocol: absent, a call of the read
\* protocol ("@init{ get<name>; }"), or the read channel's command lines.
InitBlock(sdata, channels) ==
    LET get_name == StreamDataKey(sdata.asyn_driver, sdata.name, PyStr(<<"r">>))
        i == KeyIndex(channels, get_name)
    IN  IF Truthy(sdata.with_init) /\ sdata.data_operation = PyStr(<<"w">>) /\ i # 0
        THEN IF ~Truthy(channels[i].value.intr)
             THEN [kind |-> "call",
                   lines |-> <<[op |-> "call",
                                arg |-> PyStr(<<"g", "e", "t">> \o Str(sdata.name))]>>]
             ELSE [kind |-> "inline",
                   lines |-> CommandLines(channels[i].value) \o HandlerLines]
        ELSE [kind |-> "none", lines |-> <<>>]

\* StreamData.protocol: one protocol entry.
protocol(sdata, channels, common) ==
    [name |-> proto_name(sdata),
     overrides |-> get_terminator_string(sdata, common),
     lines |-> IF Truthy(sdata.intr)
               THEN <<[op |-> "in", arg |-> sdata.in_match_str]>>
               ELSE CommandLines(sdata) \o HandlerLines,
     init |-> InitBlock(sdata, channels)]

\* StreamDeviceRecord.gen_db_lines: [crash |-> TRUE] when the header line or
\* self.type.lower() raises, else the record block.
stream_gen_db_lines(pv) ==
    IF pv.type.k # "str" \/ pv.name_prefix.k # "str" \/ pv.name.k # "str"
    THEN [crash |-> TRUE]
    ELSE [crash |-> FALSE,
          row |-> pv.line_number.n,
          type |-> pv.type.s,
          name |-> pv.name_prefix.s \o NameSeparator \o pv.name.s,
          DTYP |-> "stream",
          link |-> [field |-> IF HasChar(Lower(pv.type.s), "o") THEN "OUT" ELSE "INP",
                    proto |-> proto_name(pv.stream_data),
                    response |-> /\ HasChar(Lower(pv.type.s), "o")
                                 /\ Truthy(pv.stream_data.in_match_str)]]

\* The driver-level default lines at the head of a protocol file.
DefaultLines(drv_name, common) ==
    LET line(kind) == IF drv_name \in DOMAIN common[kind]
                      THEN <<[kind |-> kind, value |-> common[kind][drv_name]]>>
                      ELSE <<>>
    IN  line("terminator") \o line("in_terminator") \o line("out_terminator")

\* AsynDriver.config_lines: the port-open line (its choice between the IP and
\* the serial call is not modelled) and the six asynSetOption values.
config_lines(drv) ==
    [name |-> drv.name, address |-> drv.address, baud |-> drv.baud,
     bits |-> drv.bits, parity |-> drv.parity, stop |-> drv.stop,
     clocal |-> drv.clocal, crtscts |-> drv.crtscts]

\* ------------------------------------------------- stream inputs
TermCR == PyStr(<<"C", "R">>)
TermLF == PyStr(<<"L", "F">>)

\* A complete, valid stream row: device D on a serial port, read channel x
\* polled into an ai record, all three terminators CR.
StreamBaseRow ==
    [c \in StreamColumns |->
        CASE c = "DeviceName" -> PyStr(<<"D">>)
          [] c = "Address" -> PyStr(<<"/", "d", "e", "v", "/", "t", "t", "y", "S", "0">>)
          [] c = "Baud" -> PyInt(9600)
          [] c = "Bits" -> PyInt(8)
          [] c = "Parity" -> PyStr(<<"n", "o", "n", "e">>)
          [] c = "Stop" -> PyInt(1)
          [] c = "CrtsCts" -> CrtsCtsNo
          [] c \in {"InTerminator", "OutTerminator", "Terminator"} -> TermCR
          [] c = "DataName" -> PyStr(<<"x">>)
          [] c = "DataOperation" -> PyStr(<<"r">>)
          [] c = "OutCommand" -> PyStr(<<"x", "?">>)
          [] c = "InMatch" -> PyStr(<<"%", "f">>)
          [] c = "RecordType" -> PyStr(<<"a", "i">>)
          [] c = "Prefix" -> PyStr(<<"P">>)
          [] c = "Name" -> PyStr(<<"n">>)
          [] OTHER -> PyNone]

\* The channels varied over the terminators: x read, y read, x written (no
\* reply expected), all polled.
WrittenRow(direction) ==
    [StreamBaseRow EXCEPT !["DataOperation"] = PyStr(direction),
                          !["RecordType"] = PyStr(<<"a", "o">>),
                          !["OutCommand"] = PyStr(<<"x", "=", "%", "f">>),
                          !["InMatch"] = PyNone]

StreamChannelRows ==
    {StreamBaseRow,
     [StreamBaseRow EXCEPT !["DataName"] = PyStr(<<"y">>),
                           !["OutCommand"] = PyStr(<<"y", "?">>)],
     WrittenRow(<<"w">>)}

\* The (Terminator, InTerminator, OutTerminator) cells a row declares.
TerminatorTriples ==
    {<<TermCR, TermCR, TermCR>>, <<TermLF, TermLF, TermCR>>, <<TermCR, TermLF, TermLF>>}

WithTerminators(row, t) ==
    [row EXCEPT !["Terminator"] = t[1], !["InTerminator"] = t[2],
                !["OutTerminator"] = t[3]]

\* Valid rows: the three channels with every terminator triple on device D,
\* the interrupt-driven read of x, the read of x declared with direction R
\* and the write of x declared with direction W on D, and the read of x on a
\* second device E.
StreamValidRows ==
    {WithTerminators(row, t) : row \in StreamChannelRows, t \in TerminatorTriples} \cup
    {[StreamBaseRow EXCEPT !["Scan"] = ScanIntr],
     [StreamBaseRow EXCEPT !["DataOperation"] = PyStr(<<"R">>)],
     WrittenRow(<<"W">>),
     WithTerminators([StreamBaseRow EXCEPT !["DeviceName"] = PyStr(<<"E">>)],
                     <<TermLF, TermLF, TermCR>>)}

\* Rows the Row Interpreter stops on: a blank terminator, a blank direction.
StreamDefectRows ==
    {[StreamBaseRow EXCEPT !["Terminator"] = PyNone],
     [StreamBaseRow EXCEPT !["DataOperation"] = PyNone]}

\* The complete header and the headers without one terminator column.
StreamHeaders ==
    {StreamFullHeader} \cup
    {Without(StreamFullHeader, c) : c \in {"Terminator", "InTerminator", "OutTerminator"}}

\* The rows a stream table under header `title` is drawn from: every row
\* above under the complete header, the polled read and the write of x on
\* device D under a shortened one.
StreamTableRows(title) ==
    LET rows == IF title = StreamFullHeader
                THEN StreamValidRows \cup StreamDefectRows
                ELSE {WithTerminators(row, t) :
                        row \in {StreamBaseRow, WrittenRow(<<"w">>)},
                        t \in TerminatorTriples}
    IN  {[c \in {title[i] : i \in 1..Len(title)} |-> r[c]] : r \in rows}

\* ------------------------------------------------- stream actions
\* The start of the stream handle_excel_list: no row read, every registry
\* empty, nothing of the Modbus program loaded.
InitStream ==
    /\ pv_title \in StreamHeaders
    /\ excel_list = <<>>
    /\ pc = "handle_excel_list"
    /\ dev_i = 0
    /\ res_files = <<>>
    /\ status = "running"
    /\ diag_line = PyNone
    /\ StreamNotLoaded
    /\ OthersNotLoaded("compilers")
    /\ device_pvs = <<>>
    /\ DeviceRegistered = <<>>
    /\ DriverRegistered = <<>>
    /\ pv_i = 0
    /\ step = "pv"
    /\ lines_for_db = <<>>
    /\ registered = <<>>

\* Stream handle_excel_list, one iteration of
\* "for j in range(1, len(excel_list))".
StreamInterpretRow(row) ==
    /\ pc = "handle_excel_list"
    /\ Len(excel_list) < MaxStreamRows
    /\ LET j == Len(excel_list) + 1
           st == StreamInterpretCells(pv_title, row, j + 1)
           drivers == RegisterAsynDriver(AsynDriverRegistered, st.driver)
           lists == WithDriverList(driver_pvs, AsynDriverRegistered, st.driver)
           sdata == BoundStreamData(drivers, st)
           pv == [st.pv EXCEPT !.stream_data = sdata]
           i == DriverPvsIndex(lists, st.device_name)
       IN  /\ excel_list' = Append(excel_list, row)
           /\ IF st.outcome = "ok"
              THEN /\ AsynDriverRegistered' = drivers
                   /\ StreamDataRegistered' = RegisterStreamData(StreamDataRegistered, sdata)
                   /\ IF i = 0
                      THEN /\ driver_pvs' = lists
                           /\ pc' = "exited"
                           /\ status' = "traceback"
                      ELSE /\ driver_pvs' = [lists EXCEPT ![i].records = Append(@, pv)]
                           /\ UNCHANGED <<pc, status>>
                   /\ UNCHANGED diag_line
              ELSE /\ pc' = "exited"
                   /\ status' = (IF st.outcome = "exit" THEN "exit1" ELSE "traceback")
                   /\ diag_line' = (IF st.outcome = "exit" THEN st.pv.line_number
                                    ELSE PyNone)
                   /\ UNCHANGED <<AsynDriverRegistered, StreamDataRegistered, driver_pvs>>
    /\ UNCHANGED <<pv_title, dev_i, res_files, modbusVars, auxVars, DrvCommonTerminator,
                   DrvCommonInTerminator, DrvCommonOutTerminator>>

\* The end of the stream handle_excel_list: get_global_terminator_settings,
\* the return, and __main__ entering "for drv in DriverRegistered.values()".
StreamEndOfTable ==
    /\ pc = "handle_excel_list"
    /\ DrvCommonTerminator' =
            get_global_terminator_settings(AsynDriverRegistered, StreamDataRegistered,
                                           "terminator")
    /\ DrvCommonInTerminator' =
            get_global_terminator_settings(AsynDriverRegistered, StreamDataRegistered,
                                           "in_terminator")
    /\ DrvCommonOutTerminator' =
            get_global_terminator_settings(AsynDriverRegistered, StreamDataRegistered,
                                           "out_terminator")
    /\ IF AsynDriverRegistered = <<>>
       THEN /\ pc' = "exited"
            /\ status' = "exit0"
            /\ UNCHANGED dev_i
       ELSE /\ pc' = "render"
            /\ dev_i' = 1
            /\ UNCHANGED status
    /\ UNCHANGED <<pv_title, excel_list, res_files, diag_line, modbusVars, auxVars,
                   AsynDriverRegistered, StreamDataRegistered, driver_pvs>>

\* The DrvCommon dicts, by kind.
DrvCommon ==
    [kind \in TerminatorKinds |->
        CASE kind = "terminator" -> DrvCommonTerminator
          [] kind = "in_terminator" -> DrvCommonInTerminator
          [] OTHER -> DrvCommonOutTerminator]

\* One iteration of "for drv in DriverRegistered.values()": the protocol
\* defaults, the record loop, and the .db, .proto and .cmd files of drv.
RenderDriver ==
    /\ pc = "render"
    /\ LET drv == AsynDriverRegistered[dev_i].value
           records == driver_pvs[DriverPvsIndex(driver_pvs, drv.name)].records
           blocks == [i \in 1..Len(records) |-> stream_gen_db_lines(records[i])]
           entries == [i \in 1..Len(records) |->
                            protocol(records[i].stream_data, StreamDataRegistered,
                                     DrvCommon)]
           file(ext, lines) == [device |-> drv.name, ext |-> ext, lines |-> lines]
       IN  IF \E i \in 1..Len(records) : blocks[i].crash
           THEN /\ pc' = "exited"
                /\ status' = "traceback"
                /\ UNCHANGED <<res_files, dev_i>>
           ELSE /\ res_files' = res_files \o
                        <<file("db", blocks),
                          file("proto", [defaults |-> DefaultLines(drv.name, DrvCommon),
                                         entries |-> entries]),
                          file("cmd", config_lines(drv))>>
                /\ IF dev_i < Len(AsynDriverRegistered)
                   THEN /\ dev_i' = dev_i + 1
                        /\ UNCHANGED <<pc, status>>
                   ELSE /\ pc' = "exited"
                        /\ status' = "exit0"
                        /\ UNCHANGED dev_i
    /\ UNCHANGED <<pv_title, excel_list, diag_line, modbusVars, streamVars, auxVars>>

NextStream ==
    \/ \E row \in StreamTableRows(pv_title) : StreamInterpretRow(row)
    \/ StreamEndOfTable
    \/ RenderDriver

SpecStream == InitStream /\ [][NextStream]_vars

\* =================================================== header dispatch
\* The text of a header cell is the sequence of its characters, a character
\* outside ASCII written by its code point ("u7ec8" is U+7EC8).

\* fragment in text
Contains(text, fragment) ==
    \E k \in 0..(Len(text) - Len(fragment)) :
        SubSeq(text, k + 1, k + Len(fragment)) = fragment

\* The if/elif chain of the Modbus handle_excel_list, in its order: the
\* fragment each condition looks for and the field its branch sets.
\*   DeviceName 'PLC名称', IPPort 'IP:Port', Info 'PLC信息', SlaveId 'PLC从站号',
\*   FunCode 'Modbus功能码', Address 'Address', Offset 'Offset', Access '数据操作',
\*   Length '数据长度', Prefix 'PV前缀', Name 'PV后缀', Scan '更新周期', Desc 'PV描述',
\*   Prec '数据精度', Egu '数据单位', Type '数据类型', Format '数据格式', Mask '掩码',
\*   OtherFields '其他EPICS字段'
ModbusRules ==
    <<
      [fragment |-> <<"P", "L", "C", "u540d", "u79f0">>,
       column |-> "DeviceName"],
      [fragment |-> <<"I", "P", ":", "P", "o", "r", "t">>,
       column |-> "IPPort"],
      [fragment |-> <<"P", "L", "C", "u4fe1", "u606f">>,
       column |-> "Info"],
      [fragment |-> <<"P", "L", "C", "u4ece", "u7ad9", "u53f7">>,
       column |-> "SlaveId"],
      [fragment |-> <<"M", "o", "d", "b", "u", "s", "u529f", "u80fd", "u7801">>,
       column |-> "FunCode"],
      [fragment |-> <<"A", "d", "d", "r", "e", "s", "s">>,
       column |-> "Address"],
      [fragment |-> <<"O", "f", "f", "s", "e", "t">>,
       column |-> "Offset"],
      [fragment |-> <<"u6570", "u636e", "u64cd", "u4f5c">>,
       column |-> "Access"],
      [fragment |-> <<"u6570", "u636e", "u957f", "u5ea6">>,
       column |-> "Length"],
      [fragment |-> <<"P", "V", "u524d", "u7f00">>,
       column |-> "Prefix"],
      [fragment |-> <<"P", "V", "u540e", "u7f00">>,
       column |-> "Name"],
      [fragment |-> <<"u66f4", "u65b0", "u5468", "u671f">>,
       column |-> "Scan"],
      [fragment |-> <<"P", "V", "u63cf", "u8ff0">>,
       column |-> "Desc"],
      [fragment |-> <<"u6570", "u636e", "u7cbe", "u5ea6">>,
       column |-> "Prec"],
      [fragment |-> <<"u6570", "u636e", "u5355", "u4f4d">>,
       column |-> "Egu"],
      [fragment |-> <<"u6570", "u636e", "u7c7b", "u578b">>,
       column |-> "Type"],
      [fragment |-> <<"u6570", "u636e", "u683c", "u5f0f">>,
       column |-> "Format"],
      [fragment |-> <<"u63a9", "u7801">>,
       column |-> "Mask"],
      [fragment |-> <<"u5176", "u4ed6", "E", "P", "I", "C", "S", "u5b57", "u6bb5">>,
       column |-> "OtherFields"]
    >>

\* The if/elif chain of the stream handle_excel_list, in its order.
\*   DeviceName '设备名称', Address '设备地址', Info '设备信息', Baud '波特率',
\*   Bits '比特位数', Parity '奇偶校验', Stop '停止位', CrtsCts '启用RTS/CTS',
\*   InTerminator '输入终止符', OutTerminator '输出终止符', Terminator '终止符',
\*   DataName '数据名称', DataOperation '数据操作', OutCommand '输出命令字符串',
\*   InMatch '输入匹配字符串', RecordType 'Record类型', Prefix 'PV前缀', Name 'PV后缀',
\*   Scan '更新周期', Desc 'PV描述', Prec '数据精度', Egu '数据单位',
\*   OtherFields '其他EPICS字段'
StreamRules ==
    <<
      [fragment |-> <<"u8bbe", "u5907", "u540d", "u79f0">>,
       column |-> "DeviceName"],
      [fragment |-> <<"u8bbe", "u5907", "u5730", "u5740">>,
       column |-> "Address"],
      [fragment |-> <<"u8bbe", "u5907", "u4fe1", "u606f">>,
       column |-> "Info"],
      [fragment |-> <<"u6ce2", "u7279", "u7387">>,
       column |-> "Baud"],
      [fragment |-> <<"u6bd4", "u7279", "u4f4d", "u6570">>,
       column |-> "Bits"],
      [fragment |-> <<"u5947", "u5076", "u6821", "u9a8c">>,
       column |-> "Parity"],
      [fragment |-> <<"u505c", "u6b62", "u4f4d">>,
       column |-> "Stop"],
      [fragment |-> <<"u542f", "u7528", "R", "T", "S", "/", "C", "T", "S">>,
       column |-> "CrtsCts"],
      [fragment |-> <<"u8f93", "u5165", "u7ec8", "u6b62", "u7b26">>,
       column |-> "InTerminator"],
      [fragment |-> <<"u8f93", "u51fa", "u7ec8", "u6b62", "u7b26">>,
       column |-> "OutTerminator"],
      [fragment |-> <<"u7ec8", "u6b62", "u7b26">>,
       column |-> "Terminator"],
      [fragment |-> <<"u6570", "u636e", "u540d", "u79f0">>,
       column |-> "DataName"],
      [fragment |-> <<"u6570", "u636e", "u64cd", "u4f5c">>,
       column |-> "DataOperation"],
      [fragment |-> <<"u8f93", "u51fa", "u547d", "u4ee4", "u5b57", "u7b26", "u4e32">>,
       column |-> "OutCommand"],
      [fragment |-> <<"u8f93", "u5165", "u5339", "u914d", "u5b57", "u7b26", "u4e32">>,
       column |-> "InMatch"],
      [fragment |-> <<"R", "e", "c", "o", "r", "d", "u7c7b", "u578b">>,
       column |-> "RecordType"],
      [fragment |-> <<"P", "V", "u524d", "u7f00">>,
       column |-> "Prefix"],
      [fragment |-> <<"P", "V", "u540e", "u7f00">>,
       column |-> "Name"],
      [fragment |-> <<"u66f4", "u65b0", "u5468", "u671f">>,
       column |-> "Scan"],
      [fragment |-> <<"P", "V", "u63cf", "u8ff0">>,
       column |-> "Desc"],
      [fragment |-> <<"u6570", "u636e", "u7cbe", "u5ea6">>,
       column |-> "Prec"],
      [fragment |-> <<"u6570", "u636e", "u5355", "u4f4d">>,
       column |-> "Egu"],
      [fragment |-> <<"u5176", "u4ed6", "E", "P", "I", "C", "S", "u5b57", "u6bb5">>,
       column |-> "OtherFields"]
    >>

\* An if/elif chain that takes the last condition that holds.
RECURSIVE FirstRule_lastMatch(_, _, _)
FirstRule_lastMatch(rules, text, r) ==
    IF r > Len(rules) THEN 0
    ELSE LET later == FirstRule_lastMatch(rules, text, r + 1)
         IN  IF later # 0 THEN later
             ELSE IF Contains(text, rules[r].fragment) THEN r ELSE 0

\* The if/elif chain from condition r on: the condition whose branch runs,
\* 0 when none holds.
RECURSIVE FirstRule(_, _, _)
FirstRule(rules, text, r) ==
    IF r > Len(rules) THEN 0
    ELSE IF Contains(text, rules[r].fragment) THEN r
         ELSE FirstRule(rules, text, r + 1)

\* The body of "for i in range(len(pv_title))" on one cell: the rule taken
\* (0: `continue` or no branch; a header cell holding a number other than 0
\* makes `'...' in pv_title[i]` raise TypeError).
HeaderRule(rules, title_i) ==
    IF ~Truthy(title_i) \/ title_i.k # "str" THEN 0
    ELSE FirstRule(rules, title_i.s, 1)

\* The loop state when a row's loop over the header cells begins.
ModbusRowStart == InterpretCells(<<>>, <<>>, 2)
StreamRowStart == StreamInterpretCells(<<>>, <<>>, 2)

\* One header cell handled by the Modbus loop.
ModbusHeaderCell(st, title_i, cell) ==
    IF ~Truthy(title_i) THEN st
    ELSE IF title_i.k # "str" THEN [st EXCEPT !.outcome = "crash"]
    ELSE LET r == HeaderRule(ModbusRules, title_i)
         IN  IF r = 0 THEN st ELSE SetCell(st, ModbusRules[r].column, cell)

\* One header cell handled by the stream loop.
StreamHeaderCell(st, title_i, cell) ==
    IF ~Truthy(title_i) THEN st
    ELSE IF title_i.k # "str" THEN [st EXCEPT !.outcome = "crash"]
    ELSE LET r == HeaderRule(StreamRules, title_i)
         IN  IF r = 0 THEN st ELSE StreamSetCell(st, StreamRules[r].column, cell)

\* The header texts tried for a rule list: each fragment alone, with text
\* before it and with text after it, every concatenation of two fragments,
\* and texts that contain no fragment (among them the first two characters
\* of a fragment and a fragment with a character missing).
HeaderTexts(rules) ==
    LET fragments == {rules[r].fragment : r \in 1..Len(rules)}
    IN  fragments
        \cup {<<"*">> \o f : f \in fragments}
        \cup {f \o <<"(", "1", ")">> : f \in fragments}
        \cup {f \o g : f, g \in fragments}
        \cup {SubSeq(f, 1, 2) : f \in fragments}
        \cup {Tail(f) : f \in {g \in fragments : Len(g) <= 3}}
        \cup {<<"x">>}

\* The header cells: blank (None, '', 0), a number, and the texts.
HeaderCells(rules) ==
    {PyNone, PyStr(<<>>), PyInt(0), PyInt(1)} \cup {PyStr(t) : t \in HeaderTexts(rules)}

\* The data cells under them.
DataCells == {PyNone, PyInt(0), PyInt(1), PyStr(<<"r">>)}

InitDispatch ==
    /\ OthersNotLoaded("dispatch")
    /\ program \in {"modbus", "stream"}
    /\ title_cell \in HeaderCells(IF program = "modbus" THEN ModbusRules
                                  ELSE StreamRules)
    /\ data_cell \in DataCells
    /\ cell_st = IF program = "modbus" THEN ModbusRowStart ELSE StreamRowStart
    /\ fired = -1

\* The Modbus loop body runs on the cell.
ModbusDispatch ==
    /\ program = "modbus"
    /\ fired = -1
    /\ fired' = HeaderRule(ModbusRules, title_cell)
    /\ cell_st' = ModbusHeaderCell(cell_st, title_cell, data_cell)
    /\ UNCHANGED <<program, title_cell, data_cell>>
    /\ UNCHANGED <<compilerVars, renderVars, scopeVars, motorVars>>

\* The stream loop body runs on the cell.
StreamDispatch ==
    /\ program = "stream"
    /\ fired = -1
    /\ fired' = HeaderRule(StreamRules, title_cell)
    /\ cell_st' = StreamHeaderCell(cell_st, title_cell, data_cell)
    /\ UNCHANGED <<program, title_cell, data_cell>>
    /\ UNCHANGED <<compilerVars, renderVars, scopeVars, motorVars>>

NextDispatch ==
    \/ ModbusDispatch
    \/ StreamDispatch

SpecDispatch == InitDispatch /\ [][NextDispatch]_vars

\* =================================================== the renderers alone
\* The rows whose records the renderers are called on: InferRows at offset 0
\* and length 1.
RenderRows ==
    {row \in InferRows : row["Offset"] = PyInt(0) /\ row["Length"] = PyInt(1)}

\* ModbusRecord objects: as constructed, as handle_excel_list leaves them
\* (gen_prepare not yet called), and as gen_prepare leaves them.
ModbusRenderRecords ==
    LET filled == {InterpretCells(FullHeader, row, 2).pv : row \in RenderRows}
    IN  {ModbusRecord} \cup filled
        \cup {gen_prepare(pv).pv : pv \in {q \in filled : ~gen_prepare(q).exit}}

\* ModbusDriver objects: what gen_config_line would build from those records
\* (from the constructed record: every attribute None).
ModbusRenderDrivers == {ModbusDriver(pv) : pv \in ModbusRenderRecords}

\* The record types the stream rows are tried with.
StreamRecordTypes ==
    {<<"a", "i">>, <<"a", "o">>, <<"b", "i">>, <<"b", "o">>,
     <<"l", "o", "n", "g", "i", "n">>, <<"l", "o", "n", "g", "o", "u", "t">>,
     <<"s", "t", "r", "i", "n", "g", "i", "n">>,
     <<"s", "t", "r", "i", "n", "g", "o", "u", "t">>,
     <<"m", "b", "b", "i">>, <<"m", "b", "b", "o">>}

\* StreamDeviceRecord objects: as handle_excel_list leaves them for the valid
\* rows and for the base row with each record type, under the full header
\* and under headers lacking the data-name, the record-type or the PV-prefix
\* column.
StreamRenderRecords ==
    LET titles == {StreamFullHeader} \cup
                  {Without(StreamFullHeader, column) :
                        column \in {"DataName", "RecordType", "Prefix"}}
        rows == StreamValidRows \cup
                {[StreamBaseRow EXCEPT !["RecordType"] = PyStr(t)] : t \in StreamRecordTypes}
        st(title, row) == StreamInterpretCells(title, row, 2)
        bound(x) == [x.pv EXCEPT !.stream_data =
                        BoundStreamData(RegisterAsynDriver(<<>>, x.driver), x)]
    IN  {bound(st(title, row)) :
            title \in titles,
            row \in {r \in rows : \A t \in titles : st(t, r).outcome = "ok"}}

InitRender ==
    /\ OthersNotLoaded("render")
    /\ renderer \in {"ModbusRecord.gen_db_lines", "ModbusDriver.config_line",
                     "StreamDeviceRecord.gen_db_lines"}
    /\ render_obj \in CASE renderer = "ModbusRecord.gen_db_lines" -> ModbusRenderRecords
                        [] renderer = "ModbusDriver.config_line" -> ModbusRenderDrivers
                        [] OTHER -> StreamRenderRecords
    /\ render_out = <<>>

\* pv_item.gen_db_lines() on a ModbusRecord
CallGenDbLines ==
    /\ renderer = "ModbusRecord.gen_db_lines"
    /\ render_out = <<>>
    /\ render_out' = <<gen_db_lines(render_obj)>>
    /\ UNCHANGED <<renderer, render_obj, compilerVars, dispatchVars, scopeVars,
                   motorVars>>

\* driver.config_line on a ModbusDriver: an f-string, which never raises
CallConfigLine ==
    /\ renderer = "ModbusDriver.config_line"
    /\ render_out = <<>>
    /\ render_out' = <<[crash |-> FALSE, line |-> config_line(render_obj)]>>
    /\ UNCHANGED <<renderer, render_obj, compilerVars, dispatchVars, scopeVars,
                   motorVars>>

\* pv_item.gen_db_lines() on a StreamDeviceRecord
CallStreamGenDbLines ==
    /\ renderer = "StreamDeviceRecord.gen_db_lines"
    /\ render_out = <<>>
    /\ render_out' = <<stream_gen_db_lines(render_obj)>>
    /\ UNCHANGED <<renderer, render_obj, compilerVars, dispatchVars, scopeVars,
                   motorVars>>

NextRender ==
    \/ CallGenDbLines
    \/ CallConfigLine
    \/ CallStreamGenDbLines

SpecRender == InitRender /\ [][NextRender]_vars

\* ======================================================== pcaspy_test.py
\* myDriver: the server thread runs write() for each client put, the thread
\* self.tid runs runSimScope.  Each getParam, setParam and Event call is one
\* step.  threading.Event: set() sets the flag and notifies the waiters,
\* clear() resets the flag, wait() returns at once when the flag is set and
\* otherwise blocks until it is notified or, with a timeout, until the
\* timeout expires; a notified waiter returns whatever the flag is by then.
InitScope ==
    /\ OthersNotLoaded("scope")
    /\ Run = 0
    /\ eid = FALSE
    /\ tid_pc = "getParam"
    /\ run = 0
    /\ write_pc = "idle"
    /\ reason = ""
    /\ value = 0
    /\ updated = FALSE

\* A client put reaches the driver: write(reason, value) is entered.
write_enter ==
    /\ write_pc = "idle"
    /\ reason' \in {"Run", "UpdateTime"}
    /\ value' \in {0, 1}
    /\ write_pc' = "test"
    /\ UNCHANGED <<Run, eid, tid_pc, run, updated>>
    /\ UNCHANGED <<compilerVars, dispatchVars, renderVars, motorVars>>

\* write(): the if/elif on reason, and getParam('Run') of line 52.
write_test ==
    /\ write_pc = "test"
    /\ write_pc' = IF reason = "Run" /\ Run = 0 /\ value = 1 THEN "set" ELSE "setParam"
    /\ UNCHANGED <<Run, eid, tid_pc, run, reason, value, updated>>
    /\ UNCHANGED <<compilerVars, dispatchVars, renderVars, motorVars>>

\* self.eid.set(): a thread blocked in wait() is notified.
write_set ==
    /\ write_pc = "set"
    /\ eid' = TRUE
    /\ tid_pc' = IF tid_pc = "blocked" THEN "woken" ELSE tid_pc
    /\ write_pc' = "clear"
    /\ UNCHANGED <<Run, run, reason, value, updated>>
    /\ UNCHANGED <<compilerVars, dispatchVars, renderVars, motorVars>>

\* self.eid.clear()
write_clear ==
    /\ write_pc = "clear"
    /\ eid' = FALSE
    /\ write_pc' = "setParam"
    /\ UNCHANGED <<Run, tid_pc, run, reason, value, updated>>
    /\ UNCHANGED <<compilerVars, dispatchVars, renderVars, motorVars>>

\* self.setParam(reason, value) and the return.
write_setParam ==
    /\ write_pc = "setParam"
    /\ Run' = IF reason = "Run" THEN value ELSE Run
    /\ updated' = IF reason = "Run" /\ Run = 0 /\ value = 1 THEN FALSE ELSE updated
    /\ write_pc' = "idle"
    /\ UNCHANGED <<eid, tid_pc, run, reason, value>>
    /\ UNCHANGED <<compilerVars, dispatchVars, renderVars, motorVars>>

\* runSimScope, lines 63-64: run = self.getParam('Run')
runSimScope_getParam ==
    /\ tid_pc = "getParam"
    /\ run' = Run
    /\ tid_pc' = "wait"
    /\ UNCHANGED <<Run, eid, write_pc, reason, value, updated>>
    /\ UNCHANGED <<compilerVars, dispatchVars, renderVars, motorVars>>

\* Lines 65-68: self.eid.wait(updateTime) or self.eid.wait() is entered.
runSimScope_wait ==
    /\ tid_pc = "wait"
    /\ tid_pc' = IF eid THEN "woken" ELSE "blocked"
    /\ UNCHANGED <<Run, eid, run, write_pc, reason, value, updated>>
    /\ UNCHANGED <<compilerVars, dispatchVars, renderVars, motorVars>>

\* The timeout of self.eid.wait(updateTime) expires.
runSimScope_timeout ==
    /\ tid_pc = "blocked"
    /\ run = 1
    /\ tid_pc' = "woken"
    /\ UNCHANGED <<Run, eid, run, write_pc, reason, value, updated>>
    /\ UNCHANGED <<compilerVars, dispatchVars, renderVars, motorVars>>

\* Lines 69-70: run = self.getParam('Run'); if not run: continue
runSimScope_recheck ==
    /\ tid_pc = "woken"
    /\ run' = Run
    /\ tid_pc' = IF Run = 0 THEN "getParam" ELSE "compute"
    /\ UNCHANGED <<Run, eid, write_pc, reason, value, updated>>
    /\ UNCHANGED <<compilerVars, dispatchVars, renderVars, motorVars>>

\* Lines 71-92: the waveform is computed, stored and published (updatePVs).
runSimScope_update ==
    /\ tid_pc = "compute"
    /\ updated' = TRUE
    /\ tid_pc' = "getParam"
    /\ UNCHANGED <<Run, eid, run, write_pc, reason, value>>
    /\ UNCHANGED <<compilerVars, dispatchVars, renderVars, motorVars>>

NextScope ==
    \/ write_enter
    \/ write_test
    \/ write_set
    \/ write_clear
    \/ write_setParam
    \/ runSimScope_getParam
    \/ runSimScope_wait
    \/ runSimScope_timeout
    \/ runSimScope_recheck
    \/ runSimScope_update

SpecScope == InitScope /\ [][NextScope]_vars

\* Both threads keep running: a write() that was entered runs to its return,
\* the simulation thread takes every step it can take.  No client is obliged
\* to send a further put.
FairSpecScope ==
    /\ SpecScope
    /\ WF_vars(write_test \/ write_set \/ write_clear \/ write_setParam)
    /\ WF_vars(runSimScope_getParam \/ runSimScope_wait \/ runSimScope_timeout
               \/ runSimScope_recheck \/ runSimScope_update)

\* ============================================== vna/MotorController2D.py
\* TwoDimensionalMotorController.  A method call is one step; the monitoring
\* thread's loop body is one step too.  The working state of a call is
\* m = [ctl, puts, ret]: the controller's attributes, the PV puts made so far
\* (in order) and the return value.  The optional velocity argument is left
\* at None.  The axis limits are those of __main__.
PositionLimits == [x |-> <<-100, 100>>, y |-> <<-50, 50>>]

\* pv.put(v) under "if pv.connected"
put(m, pv, v) ==
    IF connected THEN [m EXCEPT !.puts = Append(@, [pv |-> pv, value |-> v])] ELSE m

\* stop_x / stop_y
stop(m, axis) ==
    [put(m, <<axis, "stop">>, 1) EXCEPT !.ctl.state[axis] = "STOPPED"]

\* move_absolute_x / move_absolute_y
move_absolute(m, axis, position) ==
    IF m.ctl.emergency_stop
    THEN [m EXCEPT !.ret = FALSE]
    ELSE IF ~(PositionLimits[axis][1] <= position /\ position <= PositionLimits[axis][2])
    THEN [m EXCEPT !.ret = FALSE]
    ELSE LET targeted == IF connected
                         THEN [put(m, <<axis, "target">>, position) EXCEPT
                                    !.ctl.target[axis] = position]
                         ELSE m
             moved == IF connected
                      THEN [put(targeted, <<axis, "move">>, 1) EXCEPT
                                !.ctl.state[axis] = "MOVING"]
                      ELSE targeted
         IN  [moved EXCEPT !.ret = TRUE]

\* move_absolute_xy
move_absolute_xy(m, x, y) ==
    LET success_x == move_absolute(m, "x", x)
        success_y == move_absolute(success_x, "y", y)
    IN  [put(success_y, <<"move-xy">>, 1) EXCEPT !.ret = success_x.ret /\ success_y.ret]

\* _check_limits, `active` being the axes on which a limit switch reads true
check_limits(m, active) ==
    LET checked(n, axis) == IF axis \in active
                            THEN stop([n EXCEPT !.ctl.state[axis] = "LIMIT"], axis)
                            ELSE n
    IN  checked(checked(m, "x"), "y")

InitMotor ==
    /\ OthersNotLoaded("motor")
    /\ ctl = [state |-> [x |-> "STOPPED", y |-> "STOPPED"],
              target |-> [x |-> 0, y |-> 0],
              position |-> [x |-> 0, y |-> 0],
              emergency_stop |-> FALSE]
    /\ connected \in BOOLEAN
    /\ call = [method |-> "__init__", args |-> <<>>, ret |-> TRUE, puts |-> <<>>]

\* move_absolute_x(position) or move_absolute_y(position) is called.
Call_move_absolute ==
    \E axis \in {"x", "y"}, position \in {10, 75, 150} :
        LET m == move_absolute([ctl |-> ctl, puts |-> <<>>, ret |-> TRUE], axis, position)
        IN  /\ ctl' = m.ctl
            /\ call' = [method |-> "move_absolute", args |-> <<axis, position>>,
                        ret |-> m.ret, puts |-> m.puts]
            /\ UNCHANGED <<connected, compilerVars, dispatchVars, renderVars, scopeVars>>

\* move_absolute_xy(x, y) is called.
Call_move_absolute_xy ==
    \E x, y \in {10, 75, 150} :
        LET m == move_absolute_xy([ctl |-> ctl, puts |-> <<>>, ret |-> TRUE], x, y)
        IN  /\ ctl' = m.ctl
            /\ call' = [method |-> "move_absolute_xy", args |-> <<x, y>>,
                        ret |-> m.ret, puts |-> m.puts]
            /\ UNCHANGED <<connected, compilerVars, dispatchVars, renderVars, scopeVars>>

\* move_relative_x(offset) or move_relative_y(offset) is called.
Call_move_relative ==
    \E axis \in {"x", "y"}, offset \in {15} :
        LET m == move_absolute([ctl |-> ctl, puts |-> <<>>, ret |-> TRUE], axis,
                               ctl.position[axis] + offset)
        IN  /\ ctl' = m.ctl
            /\ call' = [method |-> "move_relative", args |-> <<axis, offset>>,
                        ret |-> m.ret, puts |-> m.puts]
            /\ UNCHANGED <<connected, compilerVars, dispatchVars, renderVars, scopeVars>>

\* move_relative_xy(x_offset, y_offset) is called.
Call_move_relative_xy ==
    \E x_offset, y_offset \in {15} :
        LET m == move_absolute_xy([ctl |-> ctl, puts |-> <<>>, ret |-> TRUE],
                                  ctl.position["x"] + x_offset,
                                  ctl.position["y"] + y_offset)
        IN  /\ ctl' = m.ctl
            /\ call' = [method |-> "move_relative_xy", args |-> <<x_offset, y_offset>>,
                        ret |-> m.ret, puts |-> m.puts]
            /\ UNCHANGED <<connected, compilerVars, dispatchVars, renderVars, scopeVars>>

\* emergency_stop() is called: stop_xy(), then the flag, then the PV.
Call_emergency_stop ==
    LET m0 == [ctl |-> ctl, puts |-> <<>>, ret |-> TRUE]
        m == put([stop(stop(m0, "x"), "y") EXCEPT !.ctl.emergency_stop = TRUE],
                 <<"emergency-stop">>, 1)
    IN  /\ ctl' = m.ctl
        /\ call' = [method |-> "emergency_stop", args |-> <<>>, ret |-> TRUE,
                    puts |-> m.puts]
        /\ UNCHANGED <<connected, compilerVars, dispatchVars, renderVars, scopeVars>>

\* release_emergency_stop() is called.
Call_release_emergency_stop ==
    LET m == put([ctl |-> [ctl EXCEPT !.emergency_stop = FALSE], puts |-> <<>>,
                  ret |-> TRUE],
                 <<"emergency-stop">>, 0)
    IN  /\ ctl' = m.ctl
        /\ call' = [method |-> "release_emergency_stop", args |-> <<>>, ret |-> TRUE,
                    puts |-> m.puts]
        /\ UNCHANGED <<connected, compilerVars, dispatchVars, renderVars, scopeVars>>

\* One turn of _monitor_positions' loop: the position PVs are read (they
\* return 0 or 60 on either axis), the bus PVs are written and _check_limits
\* runs, the limit PVs reading true on the axes `active`.
monitor_positions ==
    \E x_pos, y_pos \in {0, 60}, active \in SUBSET {"x", "y"} :
        /\ connected \/ active = {}
        /\ LET read == IF connected
                       THEN [ctl EXCEPT !.position = [x |-> x_pos, y |-> y_pos]]
                       ELSE ctl
               m0 == [ctl |-> read, puts |-> <<>>, ret |-> TRUE]
               m == check_limits(put(put(m0, <<"position:x">>, read.position["x"]),
                                     <<"position:y">>, read.position["y"]),
                                 active)
           IN  /\ ctl' = m.ctl
               /\ call' = [method |-> "_check_limits", args |-> active, ret |-> TRUE,
                           puts |-> m.puts]
               /\ UNCHANGED <<connected, compilerVars, dispatchVars, renderVars,
                              scopeVars>>

NextMotor ==
    \/ Call_move_absolute
    \/ Call_move_absolute_xy
    \/ Call_move_relative
    \/ Call_move_relative_xy
    \/ Call_emergency_stop
    \/ Call_release_emergency_stop
    \/ monitor_positions

SpecMotor == InitMotor /\ [][NextMotor]_vars

\* ------------------------------------------------------------------ claims
\* The cell of data row j under a field; None when the header has no column
\* for the field.
Cell(j, column) ==
    IF column \in DOMAIN excel_list[j] THEN excel_list[j][column] ELSE PyNone

\* The line number of data row j (the header row is line 1).
LineOf(j) == PyInt(j + 1)

\* The data row a record was built from.
RowOf(pv) == pv.line_number.n - 1

\* The record blocks emitted so far: collected for the current device, or
\* written to a .db file.
Blocks ==
    {lines_for_db[i] : i \in 1..Len(lines_for_db)} \cup
    UNION {{res_files[f].lines[i] : i \in 1..Len(res_files[f].lines)} :
           f \in {g \in 1..Len(res_files) : res_files[g].ext = "db"}}

\* The run ended, unsuccessfully, while data row j was being processed.
StoppedAt(j) ==
    /\ pc = "exited"
    /\ status # "exit0"
    /\ IF dev_i = 0
       THEN j = Len(excel_list)
       ELSE device_pvs[dev_i].records[pv_i].line_number = LineOf(j)

\* C1: every record gen_prepare completed keeps the row's offset (>= 0) and
\* length (> 0), has one of the eight function codes, and its memory_length is
\* offset + length for the codes 1, 2, 5, 15 and offset + ceil(length / 2)
\* for the codes 3, 4, 6, 16 (c = ceil(n / 2) iff n <= 2c < n + 2).
C1_MemorySpan ==
    \A i \in 1..Len(registered) :
        LET r == registered[i]
            span == r.memory_length.n - r.memory_offset.n
        IN  /\ r.memory_offset = Cell(RowOf(r), "Offset")
            /\ r.data_length = Cell(RowOf(r), "Length")
            /\ r.memory_offset.n >= 0
            /\ r.data_length.n > 0
            /\ r.modbus_funcode.n \in {1, 2, 3, 4, 5, 6, 15, 16}
            /\ r.modbus_funcode.n \in {1, 2, 5, 15} => span = r.data_length.n
            /\ r.modbus_funcode.n \in {3, 4, 6, 16} =>
                    /\ r.data_length.n <= 2 * span
                    /\ 2 * span < r.data_length.n + 2

\* A completed register-addressed record of odd length 3 at offset 1: span 3.
C1_Witness ==
    \E i \in 1..Len(registered) :
        /\ registered[i].modbus_funcode.n = 4
        /\ registered[i].memory_offset.n = 1
        /\ registered[i].data_length.n = 3
        /\ registered[i].memory_length.n = 3

\* C3: every Interface of the registry has memory_length equal to the largest
\* span among the records registered so far under its name, and no step
\* removes an Interface or decreases its memory_length.
C3_SpansOf(name) ==
    {registered[i].memory_length.n :
        i \in {k \in 1..Len(registered) : registered[k].interface_name = name}}

C3_SpanIsMax ==
    \A i \in 1..Len(DriverRegistered) :
        LET spans == C3_SpansOf(DriverRegistered[i].name)
        IN  /\ DriverRegistered[i].memory_length.n \in spans
            /\ \A n \in spans : n <= DriverRegistered[i].memory_length.n

C3_MaxSpanNeverShrinks ==
    /\ []C3_SpanIsMax
    /\ [][\A i \in 1..Len(DriverRegistered) :
            /\ i <= Len(DriverRegistered')
            /\ DriverRegistered'[i].name = DriverRegistered[i].name
            /\ DriverRegistered'[i].memory_length.n >=
                    DriverRegistered[i].memory_length.n]_vars

\* A record has just registered on an existing Interface with a span smaller
\* than the Interface's length.
C3_Witness ==
    /\ Len(registered) >= 2
    /\ \E i \in 1..Len(DriverRegistered) :
        /\ DriverRegistered[i].name = registered[Len(registered)].interface_name
        /\ DriverRegistered[i].memory_length.n >
                registered[Len(registered)].memory_length.n

\* C4: the decision table.  For every completed record, with the function
\* code, access mode and mask its row declared: (a) no code: r gives code 3
\* and bi (mask set) or ai, w gives code 16 and bo (mask set) or ao; (b) code
\* 1, 2 gives bi and code 5, 15 gives bo, the mask becoming '0x1'; (c) code
\* 3, 4 gives bi (mask set) or ai; (d) code 6, 16 gives bo (mask set) or ao;
\* a declared code is kept.
C4_DecisionTable ==
    \A i \in 1..Len(registered) :
        LET r == registered[i]
            funcode == Cell(RowOf(r), "FunCode")
            access == Cell(RowOf(r), "Access")
            mask == Cell(RowOf(r), "Mask")
            kind == r.type.s
            code == r.modbus_funcode
        IN  /\ funcode = PyNone /\ access = PyStr(<<"r">>) =>
                    /\ code = PyInt(3)
                    /\ kind = (IF Truthy(mask) THEN <<"b", "i">> ELSE <<"a", "i">>)
            /\ funcode = PyNone /\ access = PyStr(<<"w">>) =>
                    /\ code = PyInt(16)
                    /\ kind = (IF Truthy(mask) THEN <<"b", "o">> ELSE <<"a", "o">>)
            /\ funcode \in {PyInt(1), PyInt(2)} =>
                    kind = <<"b", "i">> /\ r.memory_address_mask = PyStr(<<"0", "x", "1">>)
            /\ funcode \in {PyInt(5), PyInt(15)} =>
                    kind = <<"b", "o">> /\ r.memory_address_mask = PyStr(<<"0", "x", "1">>)
            /\ funcode \in {PyInt(3), PyInt(4)} =>
                    kind = (IF Truthy(mask) THEN <<"b", "i">> ELSE <<"a", "i">>)
            /\ funcode \in {PyInt(6), PyInt(16)} =>
                    kind = (IF Truthy(mask) THEN <<"b", "o">> ELSE <<"a", "o">>)
            /\ funcode # PyNone => code = funcode
            /\ kind \in {<<"a", "i">>, <<"a", "o">>, <<"b", "i">>, <<"b", "o">>}

\* A completed record whose row declared code 16 and a mask (kind bo), the
\* declared mask kept.
C4_Witness ==
    \E i \in 1..Len(registered) :
        /\ Cell(RowOf(registered[i]), "FunCode") = PyInt(16)
        /\ Cell(RowOf(registered[i]), "Mask") = PyStr(<<"0", "x", "2">>)
        /\ registered[i].type.s = <<"b", "o">>
        /\ registered[i].memory_address_mask = PyStr(<<"0", "x", "2">>)

\* The row declares a function code of 1..4 without access r, of 5, 6, 15, 16
\* without access w, or a code that is none of the eight.
C5_Mismatched(j) ==
    LET funcode == Cell(j, "FunCode")
        access == Cell(j, "Access")
    IN  /\ funcode # PyNone
        /\ \/ funcode \in {PyInt(c) : c \in {1, 2, 3, 4}} /\ access # PyStr(<<"r">>)
           \/ funcode \in {PyInt(c) : c \in {5, 6, 15, 16}} /\ access # PyStr(<<"w">>)
           \/ funcode \notin {PyInt(c) : c \in {1, 2, 3, 4, 5, 6, 15, 16}}

\* C5: a row with such a function code never completes the run, is never
\* registered in the Interface Registry and no record block is emitted for
\* it; when the run ends on it, it ends with exit(1) and a message naming the
\* row's line number.
C5_MismatchIsFatal ==
    \A j \in 1..Len(excel_list) :
        C5_Mismatched(j) =>
            /\ status # "exit0"
            /\ \A i \in 1..Len(registered) : registered[i].line_number # LineOf(j)
            /\ \A b \in Blocks : b.row # j + 1
            /\ StoppedAt(j) => status = "exit1" /\ diag_line = LineOf(j)

\* The run has ended with exit(1) on a row that declares write code 15 with
\* access r.
C5_Witness ==
    /\ Len(excel_list) = 1
    /\ Cell(1, "FunCode") = PyInt(15)
    /\ Cell(1, "Access") = PyStr(<<"r">>)
    /\ StoppedAt(1)
    /\ status = "exit1"
    /\ diag_line = LineOf(1)

\* C2: once two completed records with the same interface key have been
\* registered, DriverRegistered holds exactly one entry under that key, its
\* memory_length is the larger of the two spans, and the registry equals the
\* one obtained by registering the two records in the other order.
C2_OrderIndependent ==
    (/\ Len(registered) = 2
     /\ registered[1].interface_name = registered[2].interface_name) =>
        LET key == registered[1].interface_name
            entries == {i \in 1..Len(DriverRegistered) : DriverRegistered[i].name = key}
            a == registered[1].memory_length.n
            b == registered[2].memory_length.n
        IN  /\ Cardinality(entries) = 1
            /\ \A i \in entries :
                    DriverRegistered[i].memory_length.n = (IF a > b THEN a ELSE b)
            /\ DriverRegistered =
                    gen_config_line(gen_config_line(<<>>, registered[2]), registered[1])

\* The (type, suffix) pair of the row is one of the table's: the type is a
\* key of SupportedDataFormat and the suffix (empty when the cell is blank) is
\* in the key's list.
C6_InTable(j) ==
    LET type == Cell(j, "Type")
        format == Cell(j, "Format")
    IN  /\ type.k = "str"
        /\ type.s \in DOMAIN SupportedDataFormat
        /\ (IF Truthy(format) THEN format.s ELSE <<>>) \in SupportedDataFormat[type.s]

\* C6: a row whose (type, suffix) pair is outside the table never completes
\* the run, never reaches registration or rendering and raises no exception;
\* when the run ends on it, it ends with exit(1) and a message naming the
\* row's line number.
C6_OutsideTableIsFatal ==
    \A j \in 1..Len(excel_list) :
        ~C6_InTable(j) =>
            /\ status \notin {"exit0", "traceback"}
            /\ \A i \in 1..Len(registered) : registered[i].line_number # LineOf(j)
            /\ \A b \in Blocks : b.row # j + 1
            /\ StoppedAt(j) => status = "exit1" /\ diag_line = LineOf(j)

\* C7: when a run over two or more devices, all rows with integer slave ids,
\* ends with exit(1), no .db and no .cmd file has been written.
C7_AbortWritesNothing ==
    (/\ status = "exit1"
     /\ Len(device_pvs) >= 2
     /\ \A j \in 1..Len(excel_list) : IsInt(Cell(j, "SlaveId"))) =>
        res_files = <<>>

\* C8: when a row has no access mode (blank cell, or no access-mode column),
\* no file is written, no exception is raised, the run does not complete, and
\* it ends with exit(1) and a message naming the line number of the first
\* such row.
C8_MissingAccessIsConfigError ==
    LET missing == {j \in 1..Len(excel_list) : Cell(j, "Access") = PyNone}
    IN  missing # {} =>
            /\ status \notin {"exit0", "traceback"}
            /\ res_files = <<>>
            /\ pc = "exited" =>
                    /\ status = "exit1"
                    /\ \E j \in missing :
                        /\ \A k \in missing : j <= k
                        /\ diag_line = LineOf(j)

\* C9, for a required field that is missing because no header cell matches
\* its fragment: no row of the table is registered or rendered, no file is
\* written, the run does not complete and raises no exception, and it ends
\* with exit(1) and a message naming the line number of the row it ends on.
C9_MissingColumnIsHardError ==
    (\E c \in RequiredColumns : \A i \in 1..Len(pv_title) : pv_title[i] # c) =>
        \A j \in 1..Len(excel_list) :
            /\ status \notin {"exit0", "traceback"}
            /\ registered = <<>>
            /\ Blocks = {}
            /\ res_files = <<>>
            /\ StoppedAt(j) => status = "exit1" /\ diag_line = LineOf(j)

\* C10: the .cmd file of a device holds exactly one drvModbusAsynConfigure
\* line for every interface key its records resolved to and no other, and the
\* length of each line is the largest span among the device's records under
\* that key.
C10_OneLinePerInterface ==
    \A f \in 1..Len(res_files) :
        res_files[f].ext = "cmd" =>
            LET d == CHOOSE i \in 1..Len(device_pvs) :
                        device_pvs[i].device = res_files[f].device
                records == device_pvs[d].records
                names == {records[i].interface_name.s : i \in 1..Len(records)}
                lines == res_files[f].lines.drivers
            IN  /\ Len(lines) = Cardinality(names)
                /\ \A n \in names :
                        Cardinality({i \in 1..Len(lines) : lines[i].portName = n}) = 1
                /\ \A i \in 1..Len(lines) :
                        LET spans == {records[k].memory_length.n :
                                        k \in {m \in 1..Len(records) :
                                            records[m].interface_name.s = lines[i].portName}}
                        IN  /\ spans # {}
                            /\ \E n \in spans :
                                /\ \A m \in spans : m <= n
                                /\ lines[i].modbusLength = NatStr(n)

\* The (device, slave id, base address, function code) tuple of a completed
\* record.
C11_Tuple(pv) == <<pv.device, pv.slave_id, pv.memory_address, pv.modbus_funcode>>

\* C11: in a run that has not failed, two completed records have the same
\* interface key exactly when they agree on device, slave id, base address
\* and function code, and the registry holds exactly one entry for every
\* tuple registered.
C11_KeyInjective ==
    status \in {"running", "exit0"} =>
        /\ \A i, k \in 1..Len(registered) :
                (registered[i].interface_name = registered[k].interface_name) <=>
                    (C11_Tuple(registered[i]) = C11_Tuple(registered[k]))
        /\ Len(DriverRegistered) =
                Cardinality({C11_Tuple(registered[i]) : i \in 1..Len(registered)})

\* The key and the source field the round-trip scenario expects.
C12_Key ==
    <<"P", "L", "C", "1", "_", "1", "_", "A", "d", "d", "r", "1", "0", "0",
      "_", "F", "C", "3">>

C12_Link ==
    [field |-> "INP",
     value |-> <<"@", "a", "s", "y", "n", "(">> \o C12_Key \o <<" ", "0", ")">> \o
               <<"F", "L", "O", "A", "T", "3", "2", "_", "L", "E">>]

\* C12: a table whose only row is the scenario's row never fails; once its
\* record is completed it has function code 3, kind ai, interface key
\* PLC1_1_Addr100_FC3 and span 2; every record block of the row has the
\* source field INP "@asyn(PLC1_1_Addr100_FC3 0)FLOAT32_LE", and the finished
\* run has written exactly that one block to PLC1.db.
C12_RoundTrip ==
    excel_list = <<RoundTripRow>> =>
        /\ status \in {"running", "exit0"}
        /\ \A i \in 1..Len(registered) :
                /\ registered[i].modbus_funcode = PyInt(3)
                /\ registered[i].type = PyStr(<<"a", "i">>)
                /\ registered[i].interface_name = PyStr(C12_Key)
                /\ registered[i].memory_length = PyInt(2)
                /\ \E k \in 1..Len(DriverRegistered) :
                        DriverRegistered[k].name = PyStr(C12_Key)
        /\ \A b \in Blocks : b.row = 2 /\ b.type = <<"a", "i">> /\ b.link = C12_Link
        /\ pc = "exited" =>
                \E f \in 1..Len(res_files) :
                    /\ res_files[f].ext = "db"
                    /\ res_files[f].device = PyStr(<<"P", "L", "C", "1">>)
                    /\ Len(res_files[f].lines) = 1

\* The scenario's run has finished with its block written.
C12_Witness ==
    /\ excel_list = <<RoundTripRow>>
    /\ pc = "exited"
    /\ status = "exit0"
    /\ \E b \in Blocks : b.link = C12_Link

\* The data rows handle_excel_list has interpreted to the end: all rows read,
\* but the last one when the run stopped on it.
Interpreted ==
    {j \in 1..Len(excel_list) :
        ~(j = Len(excel_list) /\ pc = "exited" /\ dev_i = 0 /\ status # "exit0")}

\* The device a row names: its device-name cell, 'UnknownDevice' when blank.
NamedBy(j) ==
    IF Truthy(Cell(j, "DeviceName")) THEN Cell(j, "DeviceName")
    ELSE PyStr(<<"U", "n", "k", "n", "o", "w", "n", "D", "e", "v", "i", "c", "e">>)

\* The first and the last interpreted row naming a device.
FirstNaming(name) ==
    CHOOSE j \in Interpreted :
        NamedBy(j) = name /\ \A k \in Interpreted : NamedBy(k) = name => j <= k

LastNaming(name) ==
    CHOOSE j \in Interpreted :
        NamedBy(j) = name /\ \A k \in Interpreted : NamedBy(k) = name => k <= j

\* The Device registry and the record lists match the rows interpreted.
C17_RegistryMatchesRows ==
    /\ Len(DeviceRegistered) = Cardinality({NamedBy(j) : j \in Interpreted})
    /\ Len(device_pvs) = Len(DeviceRegistered)
    /\ \A j \in Interpreted :
            Cardinality({d \in 1..Len(DeviceRegistered) :
                            DeviceRegistered[d].name = NamedBy(j)}) = 1
    /\ \A d \in 1..Len(DeviceRegistered) :
            LET name == DeviceRegistered[d].name
                rows == {j \in Interpreted : NamedBy(j) = name}
                records == device_pvs[d].records
            IN  /\ rows # {}
                /\ DeviceRegistered[d].address = Cell(FirstNaming(name), "IPPort")
                /\ device_pvs[d].device = name
                /\ Len(records) = Cardinality(rows)
                /\ \A i \in 1..Len(records) : RowOf(records[i]) \in rows
                /\ \A i, k \in 1..Len(records) :
                        i < k => RowOf(records[i]) < RowOf(records[k])

\* C17: at every point of the run the Device registry holds exactly one
\* Device per device name among the rows interpreted so far, with the
\* address of the first row that named it; every interpreted row's record is
\* in the record list of the device it names, in table order; and no step
\* removes a Device or changes one.
C17_DevicesOncePerName ==
    /\ []C17_RegistryMatchesRows
    /\ [][/\ Len(DeviceRegistered') >= Len(DeviceRegistered)
          /\ \A d \in 1..Len(DeviceRegistered) :
                DeviceRegistered'[d] = DeviceRegistered[d]]_vars

\* Three rows interpreted: A at h:502, A_1 at g:502, A again at g:502; the
\* registry holds A with address h:502 and A's list holds rows 1 and 3.
C17_Witness ==
    /\ Len(excel_list) = 3
    /\ Interpreted = {1, 2, 3}
    /\ NamedBy(1) = DeviceA /\ NamedBy(2) = DeviceA1 /\ NamedBy(3) = DeviceA
    /\ Cell(1, "IPPort") # Cell(3, "IPPort")
    /\ Len(DeviceRegistered) = 2
    /\ DeviceRegistered[1].address = Cell(1, "IPPort")
    /\ Len(device_pvs[1].records) = 2

\* handle_excel_list has returned.
TableInterpreted == pc = "render" \/ dev_i >= 1

\* C19 as stated: once the whole table has been interpreted, every Device
\* has the info of the last row that named it and the address of the first.
C19_LastInfoWins ==
    TableInterpreted =>
        \A d \in 1..Len(DeviceRegistered) :
            /\ DeviceRegistered[d].info =
                    Cell(LastNaming(DeviceRegistered[d].name), "Info")
            /\ DeviceRegistered[d].address =
                    Cell(FirstNaming(DeviceRegistered[d].name), "IPPort")

\* C19 amended: once the whole table has been interpreted, every Device has
\* the info and the address of the first row that named it.
C19_FirstInfoWins ==
    TableInterpreted =>
        \A d \in 1..Len(DeviceRegistered) :
            /\ DeviceRegistered[d].info =
                    Cell(FirstNaming(DeviceRegistered[d].name), "Info")
            /\ DeviceRegistered[d].address =
                    Cell(FirstNaming(DeviceRegistered[d].name), "IPPort")

\* The whole table is interpreted and two rows named device A with different
\* info texts: the Device has the first one.
C19_Witness ==
    /\ TableInterpreted
    /\ Len(excel_list) >= 2
    /\ NamedBy(1) = DeviceA /\ NamedBy(2) = DeviceA
    /\ Cell(1, "Info") # Cell(2, "Info")
    /\ DeviceRegistered[1].info = Cell(1, "Info")

\* C18: every record block emitted comes from a record that was registered
\* and is complete: kind ai, ao, bi or bo; one of the eight function codes;
\* an interface key that is set and names an Interface of the registry; an
\* input kind exactly when the access mode is r and an output kind exactly
\* when it is w; and the block has an INP field (access r) or an OUT field
\* (access w), never the output of the fallback branch.
C18_RenderedRecordsComplete ==
    \A b \in Blocks :
        /\ \E i \in 1..Len(registered) : registered[i].line_number = PyInt(b.row)
        /\ \A i \in 1..Len(registered) :
            registered[i].line_number = PyInt(b.row) =>
                LET r == registered[i]
                    input == r.type.s \in {<<"a", "i">>, <<"b", "i">>}
                    output == r.type.s \in {<<"a", "o">>, <<"b", "o">>}
                IN  /\ r.type.k = "str"
                    /\ input \/ output
                    /\ r.modbus_funcode \in {PyInt(c) : c \in {1, 2, 3, 4, 5, 6, 15, 16}}
                    /\ r.interface_name.k = "str" /\ r.interface_name.s # <<>>
                    /\ \E k \in 1..Len(DriverRegistered) :
                            DriverRegistered[k].name = r.interface_name
                    /\ input <=> r.device_access = PyStr(<<"r">>)
                    /\ output <=> r.device_access = PyStr(<<"w">>)
                    /\ b.type = r.type.s
                    /\ b.link.field = (IF input THEN "INP" ELSE "OUT")
                    /\ b.link.field # "DTYP"

\* A block with an OUT field has been written to a .db file for a masked
\* write record (kind bo, function code 16).
C18_Witness ==
    \E f \in 1..Len(res_files) :
        /\ res_files[f].ext = "db"
        /\ \E k \in 1..Len(res_files[f].lines) :
            /\ res_files[f].lines[k].link.field = "OUT"
            /\ res_files[f].lines[k].type = <<"b", "o">>
            /\ \E i \in 1..Len(registered) :
                /\ registered[i].line_number = PyInt(res_files[f].lines[k].row)
                /\ registered[i].modbus_funcode = PyInt(16)

\* C20: no step removes an Interface or moves it to another key, and a step
\* that registers a record against a key already in the registry leaves the
\* set of keys and every other Interface unchanged and changes nothing of the
\* record's Interface but its memory_length.
C20_RegisterChangesLengthOnly ==
    [][/\ \A i \in 1..Len(DriverRegistered) :
            /\ i <= Len(DriverRegistered')
            /\ DriverRegistered'[i].name = DriverRegistered[i].name
       /\ (/\ Len(registered') = Len(registered) + 1
           /\ \E i \in 1..Len(DriverRegistered) :
                DriverRegistered[i].name = registered'[Len(registered')].interface_name) =>
            /\ Len(DriverRegistered') = Len(DriverRegistered)
            /\ \A i \in 1..Len(DriverRegistered) :
                IF DriverRegistered[i].name = registered'[Len(registered')].interface_name
                THEN DriverRegistered'[i] =
                        [DriverRegistered[i] EXCEPT
                            !.memory_length = DriverRegistered'[i].memory_length]
                ELSE DriverRegistered'[i] = DriverRegistered[i]]_vars

\* A record has just registered against an Interface that another record
\* created, and has raised its memory_length, while a second Interface is in
\* the registry.
C20_Witness ==
    /\ Len(registered) = 3
    /\ Len(DriverRegistered) = 2
    /\ registered[3].interface_name = registered[1].interface_name
    /\ registered[3].memory_length.n > registered[1].memory_length.n
    /\ DriverRegistered[1].name = registered[1].interface_name
    /\ DriverRegistered[1].memory_length = registered[3].memory_length

\* gen_prepare stops at its access-mode check: the checks before it pass.
C23_StopsAtAccessCheck(pv) ==
    /\ Truthy(pv.device)
    /\ Truthy(pv.slave_id) \/ IsInt(pv.slave_id)
    /\ Truthy(pv.memory_offset) \/ IsInt(pv.memory_offset)
    /\ Truthy(pv.data_length) /\ IsInt(pv.data_length)
    /\ pv.device_access \notin {AccessRead, AccessWrite}

\* C23: a run never ends with exit(1) at gen_prepare's access-mode check on a
\* row whose access cell passed handle_excel_list's check (r, w or rw in any
\* letter case).
C23_AccessLayersAgree ==
    \A j \in 1..Len(excel_list) :
        LET access == Cell(j, "Access")
        IN  (/\ access.k = "str"
             /\ Lower(access.s) \in {<<"r">>, <<"w">>, <<"r", "w">>}
             /\ StoppedAt(j)
             /\ dev_i # 0
             /\ status = "exit1") =>
                ~C23_StopsAtAccessCheck(device_pvs[dev_i].records[pv_i])

\* --------------------------------------------------- header dispatch claims
C21_Rules == IF program = "modbus" THEN ModbusRules ELSE StreamRules

C21_Start == IF program = "modbus" THEN ModbusRowStart ELSE StreamRowStart

\* The rules whose fragment occurs in the header cell's text.
C21_Matching ==
    IF title_cell.k # "str" THEN {}
    ELSE {r \in 1..Len(C21_Rules) : Contains(title_cell.s, C21_Rules[r].fragment)}

C21_Fragment(column) ==
    (CHOOSE rule \in {StreamRules[r] : r \in 1..Len(StreamRules)} :
        rule.column = column).fragment

\* C21: once the loop body has run on a header cell, (a) if no rule's
\* fragment occurs in the cell (blank cells included) no branch ran and the
\* record, the driver and the channel are as before; (b) otherwise the branch
\* that ran is the one of the lowest-numbered rule whose fragment occurs, and
\* the loop state is the start state with that one setter applied; (c) in the
\* stream chain a cell containing the in-terminator or out-terminator fragment
\* never runs the generic terminator branch and leaves the terminator field
\* as it was, and runs the in/out branch itself unless an earlier rule's
\* fragment occurs too.
C21_FirstMatchDispatch ==
    fired # -1 =>
        /\ C21_Matching = {} =>
                /\ fired = 0
                /\ [cell_st EXCEPT !.outcome = "ok"] = C21_Start
        /\ C21_Matching # {} =>
                /\ fired \in C21_Matching
                /\ \A r \in C21_Matching : fired <= r
                /\ cell_st = IF program = "modbus"
                             THEN SetCell(C21_Start, ModbusRules[fired].column, data_cell)
                             ELSE StreamSetCell(C21_Start, StreamRules[fired].column,
                                                data_cell)
        /\ \A column \in {"InTerminator", "OutTerminator"} :
                (/\ program = "stream"
                 /\ title_cell.k = "str"
                 /\ Contains(title_cell.s, C21_Fragment(column))) =>
                    /\ fired # 0
                    /\ StreamRules[fired].column # "Terminator"
                    /\ cell_st.sdata.terminator = StreamRowStart.sdata.terminator
                    /\ (\A r \in C21_Matching :
                            StreamRules[r].column \in
                                {"InTerminator", "OutTerminator", "Terminator"}) =>
                        StreamRules[fired].column \in {"InTerminator", "OutTerminator"}

\* The stream loop body has run on a header cell whose text is the generic
\* terminator fragment followed by the in-terminator fragment, over a
\* non-blank data cell: the in-terminator branch ran and set its field.
C21_Witness ==
    /\ program = "stream"
    /\ fired > 0
    /\ StreamRules[fired].column = "InTerminator"
    /\ title_cell = PyStr(C21_Fragment("Terminator") \o C21_Fragment("InTerminator"))
    /\ Truthy(data_cell)
    /\ cell_st.sdata.in_terminator = data_cell
    /\ cell_st.sdata.terminator = StreamData.terminator

\* C24: when the Modbus loop body has run the base-address branch on a data
\* cell holding an integer, the row is still being interpreted (no exit(1))
\* and the record's memory_address is that integer.
C24_IntegerAddressAccepted ==
    (/\ program = "modbus"
     /\ fired > 0
     /\ ModbusRules[fired].column = "Address"
     /\ IsInt(data_cell)) =>
        /\ cell_st.outcome = "ok"
        /\ cell_st.pv.memory_address = data_cell

\* --------------------------------------------------- renderer claims
C22_Kinds == {PyStr(<<"a", "i">>), PyStr(<<"a", "o">>), PyStr(<<"b", "i">>),
              PyStr(<<"b", "o">>)}

\* The object the renderer is called on has its payload: a Modbus record its
\* kind, function code and interface key; an Interface its name, function
\* code, base address and length; a stream record its type and its channel.
C22_Complete ==
    CASE renderer = "ModbusRecord.gen_db_lines" ->
            /\ render_obj.type \in C22_Kinds
            /\ render_obj.modbus_funcode \in FunctionCodes
            /\ render_obj.interface_name.k = "str"
      [] renderer = "ModbusDriver.config_line" ->
            /\ render_obj.name.k = "str"
            /\ render_obj.function_code \in FunctionCodes
            /\ IsInt(render_obj.memory_address)
            /\ IsInt(render_obj.memory_length)
      [] OTHER ->
            /\ render_obj.type.k = "str"
            /\ Truthy(render_obj.stream_data.name)

\* C22: a renderer called on an object without its payload raises and
\* returns no text.
C22_IncompleteRaises ==
    (render_out # <<>> /\ ~C22_Complete) => render_out[1].crash

\* The output record types among those tried.
C26_OutputTypes ==
    {PyStr(<<"a", "o">>), PyStr(<<"b", "o">>), PyStr(<<"m", "b", "b", "o">>),
     PyStr(<<"l", "o", "n", "g", "o", "u", "t">>),
     PyStr(<<"s", "t", "r", "i", "n", "g", "o", "u", "t">>)}

\* C26: a stream record that gen_db_lines renders has an OUT field exactly
\* when its declared type is an output type (an INP field otherwise), and its
\* channel is flagged with_init exactly when the type is an output type.
C26_OutIffOutputType ==
    (/\ renderer = "StreamDeviceRecord.gen_db_lines"
     /\ render_out # <<>>
     /\ ~render_out[1].crash) =>
        /\ render_out[1].link.field =
                (IF render_obj.type \in C26_OutputTypes THEN "OUT" ELSE "INP")
        /\ (render_obj.stream_data.with_init = PyTrue) <=>
                (render_obj.type \in C26_OutputTypes)

\* --------------------------------------------------- test server claims
\* C27: whenever 'Run' has been switched from STOP to RUN, the simulation
\* thread eventually publishes a waveform update unless 'Run' is switched
\* back to STOP.
C27_RunLeadsToUpdate ==
    (Run = 1 /\ ~updated) ~> (updated \/ Run = 0)

\* ------------------------------------------------- stream claims
\* get_global_terminator_settings has run.
ConsensusDone == pc = "render" \/ dev_i >= 1

\* The registered Data Channels bound to a driver that declare a terminator
\* of a kind, as positions in registration order.
C13_Declaring(drv_name, kind) ==
    {i \in 1..Len(StreamDataRegistered) :
        /\ StreamDataRegistered[i].value.asyn_driver = drv_name
        /\ Truthy(TerminatorOf(StreamDataRegistered[i].value, kind))}

\* How many of these channels declare value v, and the first that does.
C13_Count(drv_name, kind, v) ==
    Cardinality({i \in C13_Declaring(drv_name, kind) :
                    TerminatorOf(StreamDataRegistered[i].value, kind) = v})

C13_First(drv_name, kind, v) ==
    CHOOSE i \in C13_Declaring(drv_name, kind) :
        /\ TerminatorOf(StreamDataRegistered[i].value, kind) = v
        /\ \A k \in C13_Declaring(drv_name, kind) :
                TerminatorOf(StreamDataRegistered[k].value, kind) = v => i <= k

\* C13: once the consensus has been computed, for every driver and every
\* kind of terminator: a default exists exactly when some channel bound to
\* the driver declares the kind; it is a value declared by such a channel,
\* no value is declared by more of the driver's channels, and every value
\* declared by as many was first declared later in registration order.
\* Channels bound to other drivers are not counted.
C13_TerminatorConsensus ==
    ConsensusDone =>
        \A d \in 1..Len(AsynDriverRegistered), kind \in TerminatorKinds :
            LET drv_name == AsynDriverRegistered[d].value.name
                declaring == C13_Declaring(drv_name, kind)
                default == DrvCommon[kind][drv_name]
            IN  /\ (drv_name \in DOMAIN DrvCommon[kind]) <=> (declaring # {})
                /\ declaring # {} =>
                    /\ C13_Count(drv_name, kind, default) > 0
                    /\ \A i \in declaring :
                        LET v == TerminatorOf(StreamDataRegistered[i].value, kind)
                        IN  /\ C13_Count(drv_name, kind, v) <=
                                    C13_Count(drv_name, kind, default)
                            /\ (C13_Count(drv_name, kind, v) =
                                    C13_Count(drv_name, kind, default)) =>
                                  C13_First(drv_name, kind, default) <=
                                        C13_First(drv_name, kind, v)

\* Three channels of one driver declare the terminators LF, CR, CR in
\* registration order and the driver's default Terminator is CR.
C13_Witness ==
    /\ ConsensusDone
    /\ Len(StreamDataRegistered) = 3
    /\ \A i \in 1..3 : StreamDataRegistered[i].value.asyn_driver = PyStr(<<"D">>)
    /\ StreamDataRegistered[1].value.terminator = TermLF
    /\ StreamDataRegistered[2].value.terminator = TermCR
    /\ StreamDataRegistered[3].value.terminator = TermCR
    /\ DrvCommonTerminator[PyStr(<<"D">>)] = TermCR

\* The records of the driver a file was written for.
RecordsOf(f) == driver_pvs[DriverPvsIndex(driver_pvs, res_files[f].device)].records

ProtoFiles == {f \in 1..Len(res_files) : res_files[f].ext = "proto"}

\* C14: in every protocol file written, the entry of each record's channel
\* has an override line of a kind exactly when the channel declares a
\* terminator of that kind and it differs from the driver's default of the
\* kind (which exists whenever the channel declares one); the line carries
\* the channel's value; and when no channel of the driver declares a kind,
\* the driver has no default of that kind, in the dict or in the file.
C14_OverrideIffDiffers ==
    \A f \in ProtoFiles :
        LET drv_name == res_files[f].device
            entries == res_files[f].lines.entries
            defaults == res_files[f].lines.defaults
        IN  /\ Len(entries) = Len(RecordsOf(f))
            /\ \A i \in 1..Len(entries), kind \in TerminatorKinds :
                LET t == TerminatorOf(RecordsOf(f)[i].stream_data, kind)
                    lines == {k \in 1..Len(entries[i].overrides) :
                                entries[i].overrides[k].kind = kind}
                IN  /\ Truthy(t) => drv_name \in DOMAIN DrvCommon[kind]
                    /\ (lines # {}) <=> (Truthy(t) /\ t # DrvCommon[kind][drv_name])
                    /\ Cardinality(lines) <= 1
                    /\ \A k \in lines : entries[i].overrides[k].value = t
            /\ \A kind \in TerminatorKinds :
                (\A i \in 1..Len(RecordsOf(f)) :
                        ~Truthy(TerminatorOf(RecordsOf(f)[i].stream_data, kind))) =>
                    /\ drv_name \notin DOMAIN DrvCommon[kind]
                    /\ \A k \in 1..Len(defaults) : defaults[k].kind # kind

\* A protocol file in which the channels declare the terminators CR, CR, LF:
\* the third entry overrides Terminator with LF, the first two override
\* nothing of that kind.
C14_Witness ==
    \E f \in ProtoFiles :
        LET entries == res_files[f].lines.entries
            over(i) == {entries[i].overrides[k] : k \in 1..Len(entries[i].overrides)}
        IN  /\ Len(entries) = 3
            /\ res_files[f].device \in DOMAIN DrvCommonTerminator
            /\ DrvCommonTerminator[res_files[f].device] = TermCR
            /\ [kind |-> "terminator", value |-> TermLF] \in over(3)
            /\ \A i \in 1..2 : \A o \in over(i) : o.kind # "terminator"
            /\ \A i \in 1..2 : RecordsOf(f)[i].stream_data.terminator = TermCR

\* C15: in every protocol file written for a table with the complete header,
\* the records of the device that name the same channel with the same
\* direction all carry the one Data Channel registered under their key, and
\* the file holds exactly one protocol entry for every such channel: as many
\* entries as distinct channels, no two with the same name.
C15_OneEntryPerChannel ==
    \A f \in {g \in ProtoFiles : pv_title = StreamFullHeader} :
        LET records == RecordsOf(f)
            entries == res_files[f].lines.entries
            keys == {StreamDataStr(records[i].stream_data) : i \in 1..Len(records)}
        IN  /\ \A i \in 1..Len(records) :
                LET k == KeyIndex(StreamDataRegistered,
                                  StreamDataStr(records[i].stream_data))
                IN  k # 0 /\ records[i].stream_data = StreamDataRegistered[k].value
            /\ Len(entries) = Cardinality(keys)
            /\ \A i, k \in 1..Len(entries) : entries[i].name = entries[k].name => i = k

\* The registered read channels of the driver and name of a channel.
C16_PairedReads(sdata) ==
    {k \in 1..Len(StreamDataRegistered) :
        LET g == StreamDataRegistered[k].value
        IN  /\ g.asyn_driver = sdata.asyn_driver
            /\ g.name = sdata.name
            /\ g.data_operation.k = "str"
            /\ Lower(g.data_operation.s) = <<"r">>}

\* C16: in every protocol file written for a table with the complete header,
\* the entry of a write channel marked "needs paired read before write" has
\* an initialization sub-block holding the out-command and in-match lines of
\* the registered read channel of the same driver and name, when there is
\* one, and no initialization sub-block when there is none.
C16_InitInlinesPairedRead ==
    \A f \in {g \in ProtoFiles : pv_title = StreamFullHeader} :
        \A i \in 1..Len(RecordsOf(f)) :
            LET sdata == RecordsOf(f)[i].stream_data
                init == res_files[f].lines.entries[i].init
                lines == {init.lines[k] : k \in 1..Len(init.lines)}
            IN  (/\ Lower(sdata.data_operation.s) = <<"w">>
                 /\ sdata.with_init = PyTrue) =>
                    /\ C16_PairedReads(sdata) = {} => init.kind = "none"
                    /\ \A k \in C16_PairedReads(sdata) :
                        LET g == StreamDataRegistered[k].value
                        IN  /\ init.kind # "none"
                            /\ Truthy(g.out_command) =>
                                    [op |-> "out", arg |-> g.out_command] \in lines
                            /\ Truthy(g.in_match_str) =>
                                    [op |-> "in", arg |-> g.in_match_str] \in lines

\* C25: in every protocol file written for a table with the complete header,
\* the entry of a channel is named get<name> when its declared direction is
\* r or R and set<name> when it is w or W; and the entry of a write channel
\* marked "needs paired read before write" has an initialization sub-block
\* whenever a read channel of the same driver and name is registered, in
\* whatever letter case the two directions were declared.
C25_NameFollowsDirection ==
    \A f \in {g \in ProtoFiles : pv_title = StreamFullHeader} :
        \A i \in 1..Len(RecordsOf(f)) :
            LET sdata == RecordsOf(f)[i].stream_data
                entry == res_files[f].lines.entries[i]
                direction == Lower(sdata.data_operation.s)
            IN  /\ direction = <<"r">> =>
                        entry.name = <<"g", "e", "t">> \o Str(sdata.name)
                /\ direction = <<"w">> =>
                        entry.name = <<"s", "e", "t">> \o Str(sdata.name)
                /\ (/\ direction = <<"w">>
                     /\ sdata.with_init = PyTrue
                     /\ C16_PairedReads(sdata) # {}) => entry.init.kind # "none"

\* --------------------------------------------------- motor controller claims
C28_MoveMethods ==
    {"move_absolute", "move_absolute_xy", "move_relative", "move_relative_xy"}

\* The PV puts of the last call that are move commands.
C28_MoveCommands ==
    {i \in 1..Len(call.puts) :
        call.puts[i].pv \in {<<"x", "move">>, <<"y", "move">>, <<"move-xy">>}}

\* C28: a move method called while the emergency stop is engaged returns
\* False, leaves both targets unchanged, puts no move command on an axis
\* move PV or on the move-xy PV, and leaves no axis MOVING.
C28_NoMoveUnderEmergencyStop ==
    [][(ctl.emergency_stop /\ call'.method \in C28_MoveMethods) =>
            /\ call'.ret = FALSE
            /\ ctl'.target = ctl.target
            /\ C28_MoveCommands' = {}
            /\ \A axis \in {"x", "y"} : ctl'.state[axis] # "MOVING"]_vars

\* C29: move_absolute_xy returns True exactly when both targets are within
\* their axis's limits and the emergency stop is not engaged; when it
\* returns False neither target changes, no axis enters MOVING and the
\* move-xy PV is not written.
C29_AllOrNothing ==
    [][call'.method = "move_absolute_xy" =>
            LET accepted(axis, position) ==
                    /\ ~ctl.emergency_stop
                    /\ PositionLimits[axis][1] <= position
                    /\ position <= PositionLimits[axis][2]
            IN  /\ call'.ret = (accepted("x", call'.args[1]) /\ accepted("y", call'.args[2]))
                /\ call'.ret = FALSE =>
                        /\ ctl'.target = ctl.target
                        /\ \A axis \in {"x", "y"} :
                                ctl'.state[axis] = "MOVING" => ctl.state[axis] = "MOVING"
                        /\ \A i \in 1..Len(call'.puts) :
                                call'.puts[i].pv # <<"move-xy">>]_vars

\* C30: when _check_limits returns, a stop command has been put for every
\* axis on which it observed an active limit switch and that axis's state is
\* LIMIT, and the state of an axis without an active limit switch is as
\* before.
C30_LimitStateStays ==
    [][call'.method = "_check_limits" =>
            \A axis \in {"x", "y"} :
                IF axis \in call'.args
                THEN /\ \E i \in 1..Len(call'.puts) :
                            call'.puts[i] = [pv |-> <<axis, "stop">>, value |-> 1]
                     /\ ctl'.state[axis] = "LIMIT"
                ELSE ctl'.state[axis] = ctl.state[axis]]_vars

====
